---- MODULE Spec2Model ----
(***************************************************************************)
(* Model of the document change tracker: diff_documents (differ.py),       *)
(* classify_changes (classifier.py) and create_annotated_document          *)
(* (annotator.py), run one after the other as /api/compare does            *)
(* (app/main.py).                                                          *)
(*                                                                         *)
(* A Python str is a sequence of pieces: in the text of a document every   *)
(* piece is one character; a fixed phrase of the program (a reasoning, a   *)
(* context marker) is one piece, see Lit.  Python's None is the value None *)
(* below.  Indices i1, i2, j1, j2 are 0-based and half-open as in Python;  *)
(* element i of a Python list a is a[i + 1] here.                          *)
(***************************************************************************)
EXTENDS Integers, Sequences, FiniteSets, TLC

VARIABLES
    blocks_v1,      \* parsed blocks of the original document
    blocks_v2,      \* parsed blocks of the modified document
    api_key,        \* TRUE iff an OpenAI credential is configured
    document_type,  \* the document_type form field of the request
    pc,             \* position in compare_documents
    opcodes,        \* opcodes of the block matcher not yet processed
    changes,        \* diff_documents: the list of Change built so far
    change_id,      \* diff_documents: the next id to assign
    classified,     \* classify_changes: the list of ClassifiedChange
    needs_llm,      \* classify_changes: the changes no rule resolved
    llm_time_ms,    \* classify_changes: time reported for the LLM call
    llm_calls,      \* classify_changes: number of LLM calls reported
    batch_calls,    \* batches classify_batch was called with, in order
    llm_requests,   \* prompts sent with chat.completions.create, in order
    llm_outcome,    \* what the service did with the request
    annotated,      \* create_annotated_document: the annotations of the
                    \* blocks of the modified document, None before it runs
    word_diff       \* a call of get_word_level_diff on two texts: its
                    \* arguments and, once it returned, its result

vars == <<blocks_v1, blocks_v2, api_key, document_type, pc, opcodes, changes,
          change_id,
          classified, needs_llm, llm_time_ms, llm_calls, batch_calls,
          llm_requests, llm_outcome, annotated, word_diff>>

-----------------------------------------------------------------------------
(* Bounds of the model.                                                    *)

\* at most this many blocks in each document handed to diff_documents alone
MaxBlocks == 2
\* at most this many blocks in the two documents of one compare request
MaxUnits == 2
\* at most this many items in a JSON array the service replies with
MaxReply == 2
\* at most this many words in a text handed to get_word_level_diff alone
MaxWords == 3

-----------------------------------------------------------------------------
(* Python values.                                                          *)

None == <<"None">>

\* the element of a one-element set: {e : x \in {v}} evaluates v once and
\* names it x in e
TheOne(S) == CHOOSE x \in S : TRUE

Min(S) == CHOOSE x \in S : \A y \in S : x <= y

Max(S) == CHOOSE x \in S : \A y \in S : x >= y

RECURSIVE Concat(_)
\* the concatenation of a sequence of sequences
Concat(ss) == IF ss = <<>> THEN <<>> ELSE Head(ss) \o Concat(Tail(ss))

\* s[lo:hi] of Python, for 0 <= lo and any hi
Slice(s, lo, hi) ==
    LET h == IF hi > Len(s) THEN Len(s) ELSE hi
    IN  IF lo >= h THEN <<>> ELSE SubSeq(s, lo + 1, h)

\* the characters str.split() and str.strip() treat as whitespace
Whitespace == {" ", "\n", "\t"}

RECURSIVE Split(_)
\* str.split(): the maximal runs of non-whitespace characters
Split(s) ==
    IF s = <<>> THEN <<>>
    ELSE IF Head(s) \in Whitespace THEN Split(Tail(s))
    ELSE LET stops == {i \in 1..Len(s) : s[i] \in Whitespace}
             n == IF stops = {} THEN Len(s) ELSE Min(stops) - 1
         IN  <<SubSeq(s, 1, n)>> \o Split(SubSeq(s, n + 1, Len(s)))

RECURSIVE Join(_, _)
\* sep.join(parts)
Join(sep, parts) ==
    IF parts = <<>> THEN <<>>
    ELSE IF Len(parts) = 1 THEN parts[1]
    ELSE parts[1] \o sep \o Join(sep, Tail(parts))

RECURSIVE Strip(_)
\* str.strip()
Strip(s) ==
    IF s = <<>> THEN <<>>
    ELSE IF Head(s) \in Whitespace THEN Strip(Tail(s))
    ELSE IF s[Len(s)] \in Whitespace THEN Strip(SubSeq(s, 1, Len(s) - 1))
    ELSE s

-----------------------------------------------------------------------------
(* difflib.SequenceMatcher(None, a, b) for sequences shorter than the 200  *)
(* elements at which its automatic junk heuristic starts: no element is    *)
(* junk, so find_longest_match returns the longest common block, of those  *)
(* the one starting earliest in a, and of those the one earliest in b.     *)

RECURSIVE RunLen(_, _, _, _, _, _)
\* the length of the common run of a[i:ahi] and b[j:bhi] starting at i, j
RunLen(a, b, i, j, ahi, bhi) ==
    IF i < ahi /\ j < bhi /\ a[i + 1] = b[j + 1]
    THEN 1 + RunLen(a, b, i + 1, j + 1, ahi, bhi)
    ELSE 0

\* the common runs of a[alo:ahi] and b[blo:bhi]: <<i, j, length>>
Runs(a, b, alo, ahi, blo, bhi) ==
    {<<i, j, RunLen(a, b, i, j, ahi, bhi)>> :
        i \in alo..(ahi - 1), j \in blo..(bhi - 1)}

find_longest_match(a, b, alo, ahi, blo, bhi) ==
    TheOne({
        TheOne({
            IF bestsize = 0 THEN <<alo, blo, 0>>
            ELSE TheOne({
                <<besti,
                  Min({r[2] : r \in {q \in runs :
                                  q[1] = besti /\ q[3] = bestsize}}),
                  bestsize>>
                : besti \in {Min({r[1] : r \in {q \in runs :
                                              q[3] = bestsize}})}})
            : bestsize \in {Max({0} \cup {r[3] : r \in runs})}})
        : runs \in {Runs(a, b, alo, ahi, blo, bhi)}})

RECURSIVE MatchQueue(_, _, _, _, _, _)
\* the blocks get_matching_blocks collects from its queue, sorted
MatchQueue(a, b, alo, ahi, blo, bhi) ==
    TheOne({
        IF k = 0 THEN <<>>
        ELSE (IF alo < i /\ blo < j
              THEN MatchQueue(a, b, alo, i, blo, j) ELSE <<>>)
             \o <<<<i, j, k>>>> \o
             (IF i + k < ahi /\ j + k < bhi
              THEN MatchQueue(a, b, i + k, ahi, j + k, bhi) ELSE <<>>)
        : <<i, j, k>> \in {find_longest_match(a, b, alo, ahi, blo, bhi)}})

RECURSIVE Collapse(_, _)
\* get_matching_blocks: adjacent blocks are merged into the current one
Collapse(cur, rest) ==
    IF rest = <<>> THEN (IF cur[3] > 0 THEN <<cur>> ELSE <<>>)
    ELSE TheOne({
        IF cur[1] + cur[3] = nx[1] /\ cur[2] + cur[3] = nx[2]
        THEN Collapse(<<cur[1], cur[2], cur[3] + nx[3]>>, tl)
        ELSE (IF cur[3] > 0 THEN <<cur>> ELSE <<>>) \o Collapse(nx, tl)
        : nx \in {Head(rest)}, tl \in {Tail(rest)}})

get_matching_blocks(a, b) ==
    TheOne({Collapse(<<0, 0, 0>>, queue) \o <<<<Len(a), Len(b), 0>>>>
            : queue \in {MatchQueue(a, b, 0, Len(a), 0, Len(b))}})

RECURSIVE OpcodesFrom(_, _, _)
\* get_opcodes: the loop over the matching blocks, from position i, j
OpcodesFrom(blocks, i, j) ==
    IF blocks = <<>> THEN <<>>
    ELSE TheOne({
        LET tag == IF i < ai /\ j < bj THEN "replace"
                   ELSE IF i < ai THEN "delete"
                   ELSE IF j < bj THEN "insert"
                   ELSE ""
        IN  (IF tag # "" THEN <<<<tag, i, ai, j, bj>>>> ELSE <<>>)
            \o (IF size > 0
                THEN <<<<"equal", ai, ai + size, bj, bj + size>>>>
                ELSE <<>>)
            \o OpcodesFrom(tl, ai + size, bj + size)
        : <<ai, bj, size>> \in {Head(blocks)}, tl \in {Tail(blocks)}})

get_opcodes(a, b) ==
    TheOne({OpcodesFrom(blocks, 0, 0)
            : blocks \in {get_matching_blocks(a, b)}})

RECURSIVE SumSizes(_)
SumSizes(blocks) ==
    IF blocks = <<>> THEN 0 ELSE Head(blocks)[3] + SumSizes(Tail(blocks))

\* ratio(): 2.0 * matches / (len(a) + len(b)), kept as <<numerator,
\* denominator>>; 1.0 when both are empty
ratio(a, b) ==
    IF Len(a) + Len(b) = 0 THEN <<1, 1>>
    ELSE TheOne({<<2 * SumSizes(blocks), Len(a) + Len(b)>>
                 : blocks \in {get_matching_blocks(a, b)}})

\* x > y and x >= y for two ratios
RatioGt(x, y) == x[1] * y[2] > y[1] * x[2]

RatioGe(x, y) == x[1] * y[2] >= y[1] * x[2]

-----------------------------------------------------------------------------
(* differ.py                                                               *)

\* a literal piece of text inside an f-string, kept as one element
Lit(text) == <<text>>

WordChange(change_type, old_text, new_text, context) ==
    [change_type |-> change_type, old_text |-> old_text,
     new_text |-> new_text, context |-> context]

Change(id, change_type, block_type, location, original, modified, similarity, diff_text, word_changes) ==
    [change_id |-> id, change_type |-> change_type,
     block_type |-> block_type, location |-> location,
     original |-> original, modified |-> modified,
     similarity |-> similarity, diff_text |-> diff_text,
     word_changes |-> word_changes]

\* a faulty location: the index as the parser counts it, from 0
LocationFromZero(block) == <<"Block ", block.index>>

\* f"Block {block.index + 1}"
Location(block) == <<"Block ", block.index + 1>>

\* f"[-{content}-]" and f"[+{content}+]"
DelMark(content) == <<"[", "-">> \o content \o <<"-", "]">>

AddMark(content) == <<"[", "+">> \o content \o <<"+", "]">>

\* f"{context_before} {marker} {context_after}".strip()
Context(words_before, marker, words_after) ==
    Strip(Join(<<" ">>, words_before) \o <<" ">> \o Lit(marker) \o <<" ">>
          \o Join(<<" ">>, words_after))

\* a faulty step of get_word_level_diff: the new words of a replaced run
\* are read from orig_words
WordDiffStepNewFromOrig(orig_words, mod_words, tag, i1, i2, j1, j2) ==
    TheOne({
        CASE tag = "equal" ->
               [diff_parts |-> Slice(orig_words, i1, i2),
                word_changes |-> <<>>]
          [] tag = "delete" ->
               [diff_parts |-> <<DelMark(old)>>,
                word_changes |-> <<WordChange("deleted", old, <<>>,
                    Context(Slice(orig_words, Max({0, i1 - 2}), i1),
                            "[DELETED]", Slice(orig_words, i2, i2 + 2)))>>]
          [] tag = "insert" ->
               [diff_parts |-> <<AddMark(new)>>,
                word_changes |-> <<WordChange("added", <<>>, new,
                    Context(Slice(mod_words, Max({0, j1 - 2}), j1),
                            "[ADDED]", Slice(mod_words, j2, j2 + 2)))>>]
          [] tag = "replace" ->
               [diff_parts |-> <<DelMark(old), AddMark(wrong)>>,
                word_changes |-> <<WordChange("replaced", old, wrong,
                    Context(Slice(orig_words, Max({0, i1 - 2}), i1),
                            "[REPLACED]", Slice(orig_words, i2, i2 + 2)))>>]
        : old \in {Join(<<" ">>, Slice(orig_words, i1, i2))},
          new \in {Join(<<" ">>, Slice(mod_words, j1, j2))},
          wrong \in {Join(<<" ">>, Slice(orig_words, j1, j2))}})

\* get_word_level_diff: what one opcode of the word matcher adds to
\* diff_parts and to word_changes
WordDiffStep(orig_words, mod_words, tag, i1, i2, j1, j2) ==
    TheOne({
        CASE tag = "equal" ->
               [diff_parts |-> Slice(orig_words, i1, i2),
                word_changes |-> <<>>]
          [] tag = "delete" ->
               [diff_parts |-> <<DelMark(old)>>,
                word_changes |-> <<WordChange("deleted", old, <<>>,
                    Context(Slice(orig_words, Max({0, i1 - 2}), i1),
                            "[DELETED]", Slice(orig_words, i2, i2 + 2)))>>]
          [] tag = "insert" ->
               [diff_parts |-> <<AddMark(new)>>,
                word_changes |-> <<WordChange("added", <<>>, new,
                    Context(Slice(mod_words, Max({0, j1 - 2}), j1),
                            "[ADDED]", Slice(mod_words, j2, j2 + 2)))>>]
          [] tag = "replace" ->
               [diff_parts |-> <<DelMark(old), AddMark(new)>>,
                word_changes |-> <<WordChange("replaced", old, new,
                    Context(Slice(orig_words, Max({0, i1 - 2}), i1),
                            "[REPLACED]", Slice(orig_words, i2, i2 + 2)))>>]
        : old \in {Join(<<" ">>, Slice(orig_words, i1, i2))},
          new \in {Join(<<" ">>, Slice(mod_words, j1, j2))}})

RECURSIVE WordDiffLoop(_, _, _)
\* get_word_level_diff: the loop over the opcodes of the word matcher
WordDiffLoop(orig_words, mod_words, ops) ==
    IF ops = <<>> THEN [diff_parts |-> <<>>, word_changes |-> <<>>]
    ELSE TheOne({
        [diff_parts |-> here.diff_parts \o rest.diff_parts,
         word_changes |-> here.word_changes \o rest.word_changes]
        : here \in {WordDiffStep(orig_words, mod_words, Head(ops)[1],
                                 Head(ops)[2], Head(ops)[3], Head(ops)[4],
                                 Head(ops)[5])},
          rest \in {WordDiffLoop(orig_words, mod_words, Tail(ops))}})

get_word_level_diff(original, modified) ==
    TheOne({
        TheOne({[diff_text |-> Join(<<" ">>, r.diff_parts),
                 word_changes |-> r.word_changes]
                : r \in {WordDiffLoop(orig_words, mod_words,
                                      get_opcodes(orig_words, mod_words))}})
        : orig_words \in {Split(original)}, mod_words \in {Split(modified)}})

\* _match_similar_blocks: the default of its threshold parameter, 0.5
threshold == <<1, 2>>

RECURSIVE BestMatchLastTie(_, _, _, _, _, _)
\* a faulty inner loop: of the v2 blocks of the same similarity the last
\* is kept
BestMatchLastTie(b1, v2_blocks, used_v2, idx, best_idx, best_sim) ==
    IF idx >= Len(v2_blocks) THEN <<best_idx, best_sim>>
    ELSE IF idx \in used_v2
    THEN BestMatchLastTie(b1, v2_blocks, used_v2, idx + 1, best_idx, best_sim)
    ELSE TheOne({
        IF RatioGe(sim, best_sim)
        THEN BestMatchLastTie(b1, v2_blocks, used_v2, idx + 1, idx, sim)
        ELSE BestMatchLastTie(b1, v2_blocks, used_v2, idx + 1, best_idx,
                              best_sim)
        : sim \in {ratio(b1.content, v2_blocks[idx + 1].content)}})

RECURSIVE BestMatch(_, _, _, _, _, _)
\* the inner loop of _match_similar_blocks from v2 index idx on:
\* <<index of best_match or -1 for None, best_sim>>
BestMatch(b1, v2_blocks, used_v2, idx, best_idx, best_sim) ==
    IF idx >= Len(v2_blocks) THEN <<best_idx, best_sim>>
    ELSE IF idx \in used_v2
    THEN BestMatch(b1, v2_blocks, used_v2, idx + 1, best_idx, best_sim)
    ELSE TheOne({
        IF RatioGt(sim, best_sim)
        THEN BestMatch(b1, v2_blocks, used_v2, idx + 1, idx, sim)
        ELSE BestMatch(b1, v2_blocks, used_v2, idx + 1, best_idx, best_sim)
        : sim \in {ratio(b1.content, v2_blocks[idx + 1].content)}})

\* the results entry for a v1 block left without a match
DeletedResult(b1) ==
    [type |-> "deleted", v1 |-> b1, v2 |-> None, similarity |-> None,
     diff_text |-> DelMark(b1.content),
     word_changes |-> <<WordChange("deleted", b1.content, <<>>,
                                   Lit("Entire block deleted"))>>]

\* the results entry for a v2 block no v1 block took
AddedResult(b2) ==
    [type |-> "added", v1 |-> None, v2 |-> b2, similarity |-> None,
     diff_text |-> AddMark(b2.content),
     word_changes |-> <<WordChange("added", <<>>, b2.content,
                                   Lit("Entire block added"))>>]

\* the results entry for a v1 block paired with a v2 block
ModifiedResult(b1, b2, best_sim) ==
    TheOne({[type |-> "modified", v1 |-> b1, v2 |-> b2,
             similarity |-> best_sim, diff_text |-> d.diff_text,
             word_changes |-> d.word_changes]
            : d \in {get_word_level_diff(b1.content, b2.content)}})

\* a faulty _match_similar_blocks: best_sim > threshold
AcceptsAbove(best_idx, best_sim) ==
    best_idx >= 0 /\ RatioGt(best_sim, threshold)

\* `if best_match and best_sim >= threshold`
Accepts(best_idx, best_sim) == best_idx >= 0 /\ RatioGe(best_sim, threshold)

RECURSIVE MatchLoopReusesV2(_, _, _, _)
\* a faulty loop of _match_similar_blocks: a matched v2 block is not put
\* in used_v2
MatchLoopReusesV2(v1_blocks, v2_blocks, k, used_v2) ==
    IF k > Len(v1_blocks) THEN [results |-> <<>>, used_v2 |-> used_v2]
    ELSE TheOne({
        IF Accepts(best_idx, best_sim)
        THEN TheOne({
            [results |-> <<ModifiedResult(v1_blocks[k],
                               v2_blocks[best_idx + 1], best_sim)>>
                         \o rest.results,
             used_v2 |-> rest.used_v2]
            : rest \in {MatchLoopReusesV2(v1_blocks, v2_blocks, k + 1,
                                          used_v2)}})
        ELSE TheOne({
            [results |-> <<DeletedResult(v1_blocks[k])>> \o rest.results,
             used_v2 |-> rest.used_v2]
            : rest \in {MatchLoopReusesV2(v1_blocks, v2_blocks, k + 1,
                                          used_v2)}})
        : <<best_idx, best_sim>> \in
            {BestMatch(v1_blocks[k], v2_blocks, used_v2, 0, -1, <<0, 1>>)}})

RECURSIVE MatchLoop(_, _, _, _)
\* the loop of _match_similar_blocks over v1_blocks from position k on:
\* the results appended and used_v2 at its end
MatchLoop(v1_blocks, v2_blocks, k, used_v2) ==
    IF k > Len(v1_blocks) THEN [results |-> <<>>, used_v2 |-> used_v2]
    ELSE TheOne({
        IF Accepts(best_idx, best_sim)
        THEN TheOne({
            [results |-> <<ModifiedResult(v1_blocks[k],
                               v2_blocks[best_idx + 1], best_sim)>>
                         \o rest.results,
             used_v2 |-> rest.used_v2]
            : rest \in {MatchLoop(v1_blocks, v2_blocks, k + 1,
                                  used_v2 \cup {best_idx})}})
        ELSE TheOne({
            [results |-> <<DeletedResult(v1_blocks[k])>> \o rest.results,
             used_v2 |-> rest.used_v2]
            : rest \in {MatchLoop(v1_blocks, v2_blocks, k + 1, used_v2)}})
        : <<best_idx, best_sim>> \in
            {BestMatch(v1_blocks[k], v2_blocks, used_v2, 0, -1, <<0, 1>>)}})

RECURSIVE Unmatched(_, _, _)
\* the closing loop of _match_similar_blocks: v2 blocks not in used_v2
Unmatched(v2_blocks, used_v2, idx) ==
    IF idx >= Len(v2_blocks) THEN <<>>
    ELSE (IF idx \notin used_v2
          THEN <<AddedResult(v2_blocks[idx + 1])>> ELSE <<>>)
         \o Unmatched(v2_blocks, used_v2, idx + 1)

\* a faulty _match_similar_blocks: the v2 blocks no v1 block took are
\* not reported
match_similar_blocks_no_leftover(v1_blocks, v2_blocks) ==
    MatchLoop(v1_blocks, v2_blocks, 1, {}).results

match_similar_blocks(v1_blocks, v2_blocks) ==
    TheOne({m.results \o Unmatched(v2_blocks, m.used_v2, 0)
            : m \in {MatchLoop(v1_blocks, v2_blocks, 1, {})}})

\* a faulty Change for a delete opcode's block: the word change carries
\* the text as new_text too
DeletedChangeKeepsText(id, block) ==
    Change(id, "deleted", block.block_type, Location(block),
           block.content, None, None, DelMark(block.content),
           <<WordChange("deleted", block.content, block.content,
                        Lit("Entire block deleted"))>>)

\* the Change diff_documents builds for a delete opcode's block
DeletedChange(id, block) ==
    Change(id, "deleted", block.block_type, Location(block),
           block.content, None, None, DelMark(block.content),
           <<WordChange("deleted", block.content, <<>>,
                        Lit("Entire block deleted"))>>)

\* the Change diff_documents builds for an insert opcode's block
AddedChange(id, block) ==
    Change(id, "added", block.block_type, Location(block),
           None, block.content, None, AddMark(block.content),
           <<WordChange("added", <<>>, block.content,
                        Lit("Entire block added"))>>)

\* a faulty Change for one entry of a replace run: the similarity of a
\* modified block is not passed on
MatchChangeNoSimilarity(id, match) ==
    CASE match.type = "modified" ->
           Change(id, "modified", match.v1.block_type, Location(match.v1),
                  match.v1.content, match.v2.content, None,
                  match.diff_text, match.word_changes)
      [] match.type = "deleted" ->
           Change(id, "deleted", match.v1.block_type, Location(match.v1),
                  match.v1.content, None, None,
                  match.diff_text, match.word_changes)
      [] match.type = "added" ->
           Change(id, "added", match.v2.block_type, Location(match.v2),
                  None, match.v2.content, None,
                  match.diff_text, match.word_changes)

\* the Change diff_documents builds for one entry of a replace run
MatchChange(id, match) ==
    CASE match.type = "modified" ->
           Change(id, "modified", match.v1.block_type, Location(match.v1),
                  match.v1.content, match.v2.content, match.similarity,
                  match.diff_text, match.word_changes)
      [] match.type = "deleted" ->
           Change(id, "deleted", match.v1.block_type, Location(match.v1),
                  match.v1.content, None, None,
                  match.diff_text, match.word_changes)
      [] match.type = "added" ->
           Change(id, "added", match.v2.block_type, Location(match.v2),
                  None, match.v2.content, None,
                  match.diff_text, match.word_changes)

\* [b.content for b in blocks]
Contents(blocks) == [i \in 1..Len(blocks) |-> blocks[i].content]

-----------------------------------------------------------------------------
(* The documents.  parse_document gives every block its position as index  *)
(* and a stripped, non-empty content.                                      *)

Paragraph(content) == [block_type |-> "paragraph", content |-> content]

Table(content) == [block_type |-> "table", content |-> content]

\* the blocks the documents of a compare request are made of:
\* "a b", "a b," (the same words but for punctuation), "a 5%" (a
\* percentage), "x y" (unlike the others)
RequestUnits ==
    {Paragraph(<<"a", " ", "b">>),
     Paragraph(<<"a", " ", "b", ",">>),
     Paragraph(<<"a", " ", "5", "%">>),
     Paragraph(<<"x", " ", "y">>)}

\* the blocks the documents handed to diff_documents alone are made of
AlignUnits ==
    RequestUnits \cup {Table(<<"a", "\n", "-", "\n", "5">>)}

\* the lists of at most n elements of S
SeqsUpTo(S, n) == UNION {[1..k -> S] : k \in 0..n}

\* the ContentBlock list parse_document returns for a list of units
Blocks(units) ==
    [i \in 1..Len(units) |->
        [index |-> i - 1, block_type |-> units[i].block_type,
         content |-> units[i].content]]

-----------------------------------------------------------------------------
(* diff_documents, one step per opcode of the block matcher.               *)

DiffStart ==
    /\ pc = "parsed"
    /\ opcodes' = get_opcodes(Contents(blocks_v1), Contents(blocks_v2))
    /\ changes' = <<>>
    /\ change_id' = 1
    /\ pc' = "diff"
    /\ UNCHANGED <<blocks_v1, blocks_v2, api_key, document_type, classified,
                   needs_llm, llm_time_ms, llm_calls, batch_calls,
                   llm_requests, llm_outcome,
                   annotated, word_diff>>

\* a faulty diff_documents: an equal run is not skipped and falls through
\* to the handling of a replace run
OpcodeChangesNoSkip(tag, i1, i2, j1, j2, id) ==
    CASE tag = "delete" ->
           [n \in 1..(i2 - i1) |->
               DeletedChange(id + n - 1, blocks_v1[i1 + n])]
      [] tag = "insert" ->
           [n \in 1..(j2 - j1) |->
               AddedChange(id + n - 1, blocks_v2[j1 + n])]
      [] tag \in {"equal", "replace"} ->
           TheOne({[n \in 1..Len(matched) |->
                       MatchChange(id + n - 1, matched[n])]
                   : matched \in {match_similar_blocks(
                                      Slice(blocks_v1, i1, i2),
                                      Slice(blocks_v2, j1, j2))}})

\* what one opcode appends to changes, the first id being id
OpcodeChanges(tag, i1, i2, j1, j2, id) ==
    CASE tag = "equal" -> <<>>
      [] tag = "delete" ->
           [n \in 1..(i2 - i1) |->
               DeletedChange(id + n - 1, blocks_v1[i1 + n])]
      [] tag = "insert" ->
           [n \in 1..(j2 - j1) |->
               AddedChange(id + n - 1, blocks_v2[j1 + n])]
      [] tag = "replace" ->
           TheOne({[n \in 1..Len(matched) |->
                       MatchChange(id + n - 1, matched[n])]
                   : matched \in {match_similar_blocks(
                                      Slice(blocks_v1, i1, i2),
                                      Slice(blocks_v2, j1, j2))}})

\* a faulty step of diff_documents: an equal opcode takes a change_id
DiffStepCountsEqual(tag) ==
    /\ pc = "diff"
    /\ opcodes # <<>>
    /\ Head(opcodes)[1] = tag
    /\ \E new \in {OpcodeChanges(tag, Head(opcodes)[2], Head(opcodes)[3],
                                 Head(opcodes)[4], Head(opcodes)[5],
                                 change_id)} :
          /\ changes' = changes \o new
          /\ change_id' = change_id + Len(new)
                             + (IF tag = "equal" THEN 1 ELSE 0)
    /\ opcodes' = Tail(opcodes)
    /\ UNCHANGED <<blocks_v1, blocks_v2, api_key, document_type, pc,
                   classified, needs_llm, llm_time_ms, llm_calls,
                   batch_calls, llm_requests, llm_outcome,
                   annotated, word_diff>>

DiffStep(tag) ==
    /\ pc = "diff"
    /\ opcodes # <<>>
    /\ Head(opcodes)[1] = tag
    /\ \E new \in {OpcodeChanges(tag, Head(opcodes)[2], Head(opcodes)[3],
                                 Head(opcodes)[4], Head(opcodes)[5],
                                 change_id)} :
          /\ changes' = changes \o new
          /\ change_id' = change_id + Len(new)
    /\ opcodes' = Tail(opcodes)
    /\ UNCHANGED <<blocks_v1, blocks_v2, api_key, document_type, pc,
                   classified, needs_llm, llm_time_ms, llm_calls,
                   batch_calls, llm_requests, llm_outcome,
                   annotated, word_diff>>

DiffEqual == DiffStep("equal")

DiffDelete == DiffStep("delete")

DiffInsert == DiffStep("insert")

DiffReplace == DiffStep("replace")

DiffReturn ==
    /\ pc = "diff"
    /\ opcodes = <<>>
    /\ pc' = "diffed"
    /\ UNCHANGED <<blocks_v1, blocks_v2, api_key, document_type, opcodes,
                   changes, change_id, classified, needs_llm, llm_time_ms, llm_calls,
                   batch_calls, llm_requests, llm_outcome,
                   annotated, word_diff>>

\* llm_outcome while the service has not been called
NoOutcome == [kind |-> "none"]

\* the state before diff_documents is called on the two block lists
Parsed(v1, v2) ==
    /\ blocks_v1 = Blocks(v1)
    /\ blocks_v2 = Blocks(v2)
    /\ pc = "parsed"
    /\ opcodes = <<>>
    /\ changes = <<>>
    /\ change_id = 1
    /\ classified = <<>>
    /\ needs_llm = <<>>
    /\ llm_time_ms = 0
    /\ llm_calls = 0
    /\ batch_calls = <<>>
    /\ llm_requests = <<>>
    /\ llm_outcome = NoOutcome
    /\ annotated = None
    /\ word_diff = None

InitAlign ==
    /\ api_key = FALSE
    /\ document_type = "general"
    /\ \E v1 \in SeqsUpTo(AlignUnits, MaxBlocks) :
       \E v2 \in SeqsUpTo(AlignUnits, MaxBlocks) : Parsed(v1, v2)

NextAlign ==
    \/ DiffStart
    \/ DiffEqual
    \/ DiffDelete
    \/ DiffInsert
    \/ DiffReplace
    \/ DiffReturn

\* diff_documents alone, on every pair of documents within the bounds
SpecAlign == InitAlign /\ [][NextAlign]_vars

-----------------------------------------------------------------------------
(* classifier.py: the rule-based classifier.                               *)
(*                                                                         *)
(* The Vietnamese texts are written without their diacritics.  In texts    *)
(* the letters outside ASCII are the elements "d_stroke", "D_stroke",      *)
(* "o_circ_grave", "e_circ_dot", "y_hook", "i_grave" and "a_grave".        *)

Digits == {"0", "1", "2", "3", "4", "5", "6", "7", "8", "9"}

LowerLetters ==
    {"a", "b", "c", "d", "e", "f", "g", "h", "i", "j", "k", "l", "m", "n",
     "o", "p", "q", "r", "s", "t", "u", "v", "w", "x", "y", "z",
     "d_stroke", "o_circ_grave", "e_circ_dot", "y_hook", "i_grave", "a_grave"}

UpperLetters ==
    {"A", "B", "C", "D", "E", "F", "G", "H", "I", "J", "K", "L", "M", "N",
     "O", "P", "Q", "R", "S", "T", "U", "V", "W", "X", "Y", "Z", "D_stroke"}

\* what \w matches
WordChars == LowerLetters \cup UpperLetters \cup Digits \cup {"_"}

\* str.lower() on one character
LowerChar(c) ==
    CASE c = "A" -> "a" [] c = "B" -> "b" [] c = "C" -> "c" [] c = "D" -> "d"
      [] c = "E" -> "e" [] c = "F" -> "f" [] c = "G" -> "g" [] c = "H" -> "h"
      [] c = "I" -> "i" [] c = "J" -> "j" [] c = "K" -> "k" [] c = "L" -> "l"
      [] c = "M" -> "m" [] c = "N" -> "n" [] c = "O" -> "o" [] c = "P" -> "p"
      [] c = "Q" -> "q" [] c = "R" -> "r" [] c = "S" -> "s" [] c = "T" -> "t"
      [] c = "U" -> "u" [] c = "V" -> "v" [] c = "W" -> "w" [] c = "X" -> "x"
      [] c = "Y" -> "y" [] c = "Z" -> "z" [] c = "D_stroke" -> "d_stroke"
      [] OTHER -> c

\* str.lower()
Lower(text) == [i \in 1..Len(text) |-> LowerChar(text[i])]

\* the characters of text that are in class
Keep(text, class) ==
    LET keep(c) == c \in class IN SelectSeq(text, keep)

(* Regular expressions.  A pattern is run from a set of positions of the   *)
(* text (0..Len(text), a position being the number of characters before    *)
(* it) and gives the set of positions at which a match of it can end.      *)

\* one character of class
ReStep(text, from, class) ==
    {p + 1 : p \in {q \in from : q < Len(text) /\ text[q + 1] \in class}}

RECURSIVE ReStar(_, _, _)
\* class*
ReStar(text, from, class) ==
    TheOne({IF more \subseteq from THEN from
            ELSE ReStar(text, from \cup more, class)
            : more \in {ReStep(text, from, class)}})

\* class+
RePlus(text, from, class) == ReStar(text, ReStep(text, from, class), class)

\* class?
ReOpt(text, from, class) == from \cup ReStep(text, from, class)

\* class{n}
ReTimes3(text, from, class) ==
    ReStep(text, ReStep(text, ReStep(text, from, class), class), class)

\* the literal word
ReWord(text, from, word) ==
    {p + Len(word) : p \in {q \in from :
        /\ q + Len(word) <= Len(text)
        /\ SubSeq(text, q + 1, q + Len(word)) = word}}

\* one of the literal words
ReAny(text, from, words) == UNION {ReWord(text, from, w) : w \in words}

\* \b: the positions with a word character on exactly one side
ReBoundary(text, from) ==
    {p \in from :
        (p >= 1 /\ text[p] \in WordChars)
            # (p < Len(text) /\ text[p + 1] \in WordChars)}

RECURSIVE ReGroups(_, _)
\* ([.,]\d{3})+
ReGroups(text, from) ==
    TheOne({IF once = {} THEN {} ELSE once \cup ReGroups(text, once)
            : once \in {ReTimes3(text, ReStep(text, from, {".", ","}),
                                 Digits)}})

\* re.search(CRITICAL_PATTERNS[n - 1][0], text, re.IGNORECASE) finds a match
PatternFound(n, text) ==
    TheOne({
        {} # CASE n = 1 ->     \* \d+[.,]?\d*\s*%
                   ReWord(t, ReStar(t, ReStar(t, ReOpt(t,
                       RePlus(t, all, Digits), {".", ","}), Digits),
                       Whitespace), <<"%">>)
               [] n = 2 ->     \* \$\s*[\d,]+\.?\d*
                   ReStar(t, ReOpt(t, RePlus(t, ReStar(t,
                       ReWord(t, all, <<"$">>), Whitespace),
                       Digits \cup {","}), {"."}), Digits)
               [] n = 3 ->     \* [\d.,]+\s*(VND|dong|vnd|VND), d being d_stroke
                               \* in all but the first
                   ReAny(t, ReStar(t, RePlus(t, all,
                       Digits \cup {".", ","}), Whitespace),
                       {<<"v", "n", "d">>, <<"d_stroke", "o_circ_grave", "n", "g">>,
                        <<"v", "n", "d_stroke">>})
               [] n = 4 ->     \* [\d.,]+\s*(trieu|ty|nghin|ngan)
                   ReAny(t, ReStar(t, RePlus(t, all,
                       Digits \cup {".", ","}), Whitespace),
                       {<<"t", "r", "i", "e_circ_dot", "u">>, <<"t", "y_hook">>,
                        <<"n", "g", "h", "i_grave", "n">>,
                        <<"n", "g", "a_grave", "n">>})
               [] n = 5 ->     \* \b\d{1,3}([.,]\d{3})+\b
                   ReBoundary(t, ReGroups(t,
                       ReStep(t, ReBoundary(t, all), Digits)
                       \cup ReStep(t, ReStep(t, ReBoundary(t, all), Digits),
                                   Digits)
                       \cup ReTimes3(t, ReBoundary(t, all), Digits)))
               [] n = 6 ->     \* \b\d+[.,]\d+\b
                   ReBoundary(t, RePlus(t, ReStep(t,
                       RePlus(t, ReBoundary(t, all), Digits), {".", ","}),
                       Digits))
        : t \in {Lower(text)}, all \in {0..Len(text)}})

\* CRITICAL_PATTERNS[n - 1][1]
PatternReason(n) ==
    CASE n = 1 -> Lit("Gia tri phan tram thay doi")
      [] n = 2 -> Lit("Gia tri tien te thay doi (USD)")
      [] n \in {3, 4} -> Lit("Gia tri tien te thay doi (VND)")
      [] n \in {5, 6} -> Lit("Gia tri so thay doi")

\* RISK_STATEMENTS.get(reason, ...): every reason of CRITICAL_PATTERNS is a key
RiskStatement(reason) ==
    CASE reason = Lit("Gia tri phan tram thay doi") ->
           Lit("Co the anh huong den cac tinh toan tai chinh - can xac minh")
      [] reason \in {Lit("Gia tri tien te thay doi (USD)"),
                     Lit("Gia tri tien te thay doi (VND)")} ->
           Lit("Sai lech gia tri tien te - co the anh huong tai chinh")
      [] reason = Lit("Gia tri so thay doi") ->
           Lit("Thay doi du lieu so - can kiem tra voi nguon goc")
      [] OTHER -> Lit("Phat hien thay doi - can xem xet")

\* the number of entries of CRITICAL_PATTERNS
NumPatterns == 6

\* an ImpactLevel | None that is None
NoImpact == "None"

is_trivial_change(change) ==
    /\ change.word_changes # <<>>
    /\ \A k \in 1..Len(change.word_changes) :
          Lower(Keep(Strip(change.word_changes[k].old_text), WordChars))
            = Lower(Keep(Strip(change.word_changes[k].new_text), WordChars))

\* texts_to_check of classify_by_rules
TextsToCheck(word_changes) ==
    Concat([k \in 1..Len(word_changes) |->
        (IF word_changes[k].old_text # <<>>
         THEN <<word_changes[k].old_text>> ELSE <<>>)
        \o (IF word_changes[k].new_text # <<>>
            THEN <<word_changes[k].new_text>> ELSE <<>>)])

\* (impact, reasoning, risk_analysis)
Verdict(impact, reasoning, risk) ==
    [impact |-> impact, reasoning |-> reasoning, risk_analysis |-> risk]

\* a faulty classify_by_rules: the last pattern that matches gives the
\* reasoning
classify_by_rules_last_match(change) ==
    TheOne({
        IF is_trivial_change(change)
        THEN Verdict("low", Lit("Thay doi khong dang ke"),
                     Lit("Khong anh huong den nghiep vu - chi thay doi dinh dang"))
        ELSE TheOne({
            IF hits = {} THEN Verdict(NoImpact, <<>>, <<>>)
            ELSE Verdict("critical", PatternReason(Max(hits)),
                         RiskStatement(PatternReason(Max(hits))))
            : hits \in {{n \in 1..NumPatterns :
                            PatternFound(n, text_to_analyze)}}})
        : text_to_analyze \in
            {IF change.word_changes # <<>>
             THEN Join(<<" ">>, TextsToCheck(change.word_changes))
             ELSE IF change.diff_text = None THEN <<>>
             ELSE change.diff_text}})

\* a faulty classify_by_rules: the patterns are searched in diff_text, and
\* before the word changes are looked at
classify_by_rules_diff_text_first(change) ==
    TheOne({
        IF hits # {}
        THEN Verdict("critical", PatternReason(Min(hits)),
                     RiskStatement(PatternReason(Min(hits))))
        ELSE IF is_trivial_change(change)
        THEN Verdict("low", Lit("Thay doi khong dang ke"),
                     Lit("Khong anh huong den nghiep vu - chi thay doi dinh dang"))
        ELSE Verdict(NoImpact, <<>>, <<>>)
        : hits \in {{n \in 1..NumPatterns :
                        PatternFound(n, IF change.diff_text = None THEN <<>>
                                        ELSE change.diff_text)}}})

classify_by_rules(change) ==
    TheOne({
        IF is_trivial_change(change)
        THEN Verdict("low", Lit("Thay doi khong dang ke"),
                     Lit("Khong anh huong den nghiep vu - chi thay doi dinh dang"))
        ELSE TheOne({
            IF hits = {} THEN Verdict(NoImpact, <<>>, <<>>)
            ELSE Verdict("critical", PatternReason(Min(hits)),
                         RiskStatement(PatternReason(Min(hits))))
            : hits \in {{n \in 1..NumPatterns :
                            PatternFound(n, text_to_analyze)}}})
        : text_to_analyze \in
            {IF change.word_changes # <<>>
             THEN Join(<<" ">>, TextsToCheck(change.word_changes))
             ELSE IF change.diff_text = None THEN <<>>
             ELSE change.diff_text}})

-----------------------------------------------------------------------------
(* classifier.py: LLMClassifier.                                           *)
(*                                                                         *)
(* What json.loads returns is a record with its JSON type in t.  An object *)
(* carries its members "id" and "impact" (JAbsent for a missing member);   *)
(* its other members are not read by the program.                          *)

JAbsent == [t |-> "absent"]

JNull == [t |-> "null"]

JInt(n) == [t |-> "int", n |-> n]

\* a number with a fractional part: whole is the number truncated toward 0
JFloat(whole) == [t |-> "float", n |-> whole]

JStr(text) == [t |-> "str", s |-> text]

JObj(id, impact) == [t |-> "object", id |-> id, impact |-> impact]

JArr(items) == [t |-> "array", items |-> items]

\* a text that is not JSON
NotJson == [t |-> "invalid"]

\* a Python exception with its message; the messages of the model are
\* shorter than the 50 characters classify_batch keeps of them
Raised(message) == [raised |-> TRUE, message |-> message]

Returned(value) == [raised |-> FALSE, value |-> value]

DigitValue(c) ==
    CASE c = "0" -> 0 [] c = "1" -> 1 [] c = "2" -> 2 [] c = "3" -> 3
      [] c = "4" -> 4 [] c = "5" -> 5 [] c = "6" -> 6 [] c = "7" -> 7
      [] c = "8" -> 8 [] c = "9" -> 9

RECURSIVE Decimal(_)
\* the number a non-empty sequence of digits denotes
Decimal(digits) ==
    IF Len(digits) = 1 THEN DigitValue(digits[1])
    ELSE 10 * Decimal(SubSeq(digits, 1, Len(digits) - 1))
         + DigitValue(digits[Len(digits)])

\* int(change_id) for a str: surrounding whitespace and a sign are
\* accepted, anything but digits after them is a ValueError
IntOfStr(text) ==
    TheOne({
        TheOne({
            IF \/ digits = <<>>
               \/ \E i \in 1..Len(digits) : digits[i] \notin Digits
            THEN Raised("invalid literal for int() with base 10")
            ELSE Returned(IF t[1] = "-" THEN 0 - Decimal(digits)
                          ELSE Decimal(digits))
            : digits \in {IF t # <<>> /\ t[1] \in {"+", "-"}
                          THEN Tail(t) ELSE t}})
        : t \in {Strip(text)}})

\* the key of results for item.get("id"): None stays None, anything else
\* goes through int()
ChangeIdOf(id) ==
    CASE id.t \in {"absent", "null"} -> Returned([none |-> TRUE, n |-> 0])
      [] id.t \in {"int", "float"} -> Returned([none |-> FALSE, n |-> id.n])
      [] id.t = "str" ->
           TheOne({IF r.raised THEN r
                   ELSE Returned([none |-> FALSE, n |-> r.value])
                   : r \in {IntOfStr(id.s)}})
      [] OTHER -> Raised("int() argument must be a string or a real number")

\* the key of results for a change_id of the program
Key(n) == [none |-> FALSE, n |-> n]

\* impact_map.get(impact_str, ImpactLevel.MEDIUM)
ImpactMap(impact_str) ==
    CASE impact_str = <<"c", "r", "i", "t", "i", "c", "a", "l">> -> "critical"
      [] impact_str = <<"m", "e", "d", "i", "u", "m">> -> "medium"
      [] impact_str = <<"l", "o", "w">> -> "low"
      [] impact_str = <<"h", "i", "g", "h">> -> "critical"
      [] OTHER -> "medium"

\* a faulty _parse_response: .lower() left out
ImpactOfCaseSensitive(impact) ==
    CASE impact.t = "absent" -> Returned("medium")
      [] impact.t = "str" -> Returned(ImpactMap(impact.s))
      [] OTHER -> Raised("object has no attribute 'lower'")

\* item.get("impact", "medium").lower(), then impact_map
ImpactOf(impact) ==
    CASE impact.t = "absent" -> Returned("medium")
      [] impact.t = "str" -> Returned(ImpactMap(Lower(impact.s)))
      [] OTHER -> Raised("object has no attribute 'lower'")

\* default_reasons.get(impact, ("", ""))
DefaultReasons(impact) ==
    CASE impact = "critical" ->
           Verdict(impact, Lit("Thay doi quan trong"), Lit("Can xem xet ky"))
      [] impact = "medium" ->
           Verdict(impact, Lit("Thay doi co y nghia"), Lit("Can xem xet"))
      [] impact = "low" ->
           Verdict(impact, Lit("Thay doi nho"), Lit("Anh huong thap"))
      [] OTHER -> Verdict(impact, <<>>, <<>>)

\* an empty dict
EmptyDict == [k \in {} |-> 0]

RECURSIVE ParseItems(_, _)
\* the loop of _parse_response over the items of the reply, with the
\* results collected before items
ParseItems(items, results) ==
    IF items = <<>> THEN Returned(results)
    ELSE IF Head(items).t # "object"
    THEN Raised("object has no attribute 'get'")
    ELSE TheOne({
        IF id.raised THEN id
        ELSE IF impact.raised THEN impact
        ELSE ParseItems(Tail(items),
                        (id.value :> DefaultReasons(impact.value)) @@ results)
        : id \in {ChangeIdOf(Head(items).id)},
          impact \in {ImpactOf(Head(items).impact)}})

\* what iterating the parsed reply yields: the items of an array, the keys
\* of an object, the characters of a string; nothing else can be iterated
ItemsOf(parsed) ==
    CASE parsed.t = "array" -> Returned(parsed.items)
      [] parsed.t = "object" ->
           Returned((IF parsed.id.t = "absent" THEN <<>>
                     ELSE <<JStr(<<"i", "d">>)>>)
                    \o (IF parsed.impact.t = "absent" THEN <<>>
                        ELSE <<JStr(<<"i", "m", "p", "a", "c", "t">>)>>))
      [] parsed.t = "str" ->
           Returned([i \in 1..Len(parsed.s) |-> JStr(<<parsed.s[i]>>)])
      [] OTHER -> Raised("object is not iterable")

\* the reply of the service: the JSON text body between an opening and a
\* closing marker ("" for no marker); FENCE stands for the three
\* backquotes of a code fence
ResponseText(opening, body, closing) ==
    [t |-> "str", opening |-> opening, body |-> body, closing |-> closing]

\* _parse_response up to json.loads: FENCEjson or FENCE in front and FENCE
\* at the end are cut off; with any other marker the text is not JSON
LoadJson(response_text) ==
    IF /\ response_text.opening \in {"", "FENCEjson", "FENCE"}
       /\ response_text.closing \in {"", "FENCE"}
    THEN response_text.body
    ELSE NotJson

\* a faulty _parse_response: json.JSONDecodeError is not caught
parse_response_raising(response_text) ==
    TheOne({
        IF parsed.t = "invalid" THEN Raised("Expecting value")
        ELSE TheOne({IF items.raised THEN items
                     ELSE ParseItems(items.value, EmptyDict)
                     : items \in {ItemsOf(parsed)}})
        : parsed \in {LoadJson(response_text)}})

parse_response(response_text) ==
    TheOne({
        IF parsed.t = "invalid" THEN Returned(EmptyDict)
        ELSE TheOne({IF items.raised THEN items
                     ELSE ParseItems(items.value, EmptyDict)
                     : items \in {ItemsOf(parsed)}})
        : parsed \in {LoadJson(response_text)}})

\* a faulty fallback of classify_batch: ImpactLevel.LOW for MEDIUM
AllLow(batch, reasoning) ==
    [k \in {Key(batch[i].change_id) : i \in 1..Len(batch)} |->
        Verdict("low", reasoning, Lit("Can xem xet thu cong"))]

\* doc_type_vn of _build_prompt
DocTypeVn(doc_type) ==
    CASE doc_type = "general" -> "tai lieu chung"
      [] doc_type = "contract" -> "hop dong"
      [] doc_type = "policy" -> "chinh sach"
      [] doc_type = "report" -> "bao cao"
      [] doc_type = "research_paper" -> "bai nghien cuu"
      [] OTHER -> doc_type

\* _build_prompt: the part of diff_summary for one word change
SummaryPart(wc) ==
    CASE wc.change_type = "replaced" ->
           <<Lit("THAY DOI: '") \o wc.old_text \o Lit("' -> '")
             \o wc.new_text \o Lit("'")>>
      [] wc.change_type = "added" ->
           <<Lit("THEM: '") \o wc.new_text \o Lit("'")>>
      [] wc.change_type = "deleted" ->
           <<Lit("XOA: '") \o wc.old_text \o Lit("'")>>
      [] OTHER -> <<>>

\* _build_prompt: diff_summary
DiffSummary(c) ==
    IF c.word_changes # <<>>
    THEN Join(Lit("; "), Concat([k \in 1..Len(c.word_changes) |->
                                    SummaryPart(c.word_changes[k])]))
    ELSE IF c.diff_text \in {None, <<>>}
    THEN Lit("Thay doi khong xac dinh")
    ELSE c.diff_text

\* _build_prompt: context_info; the texts of the model are shorter than
\* the 300 characters it keeps of them
ContextInfo(c) ==
    (IF c.original \notin {None, <<>>}
     THEN Lit("\nNoi dung goc: ") \o c.original ELSE <<>>)
    \o (IF c.modified \notin {None, <<>>}
        THEN Lit("\nNoi dung moi: ") \o c.modified ELSE <<>>)

\* _build_prompt: the entry of change_lines for one change
ChangeLine(c) ==
    <<"#", ToString(c.change_id), " [", c.block_type, ", ",
      c.location[1], ToString(c.location[2]), "]:\n">>
    \o DiffSummary(c) \o ContextInfo(c)

\* LLMClassifier._build_prompt
build_prompt(batch, doc_type) ==
    <<"Loai tai lieu: ", DocTypeVn(doc_type),
      "\n\nCAC THAY DOI CAN PHAN LOAI:\n\n">>
    \o Join(Lit("\n\n"), [k \in 1..Len(batch) |-> ChangeLine(batch[k])])
    \o Lit("\n\nTra ve JSON array CHI voi id va impact\n\nJSON array:")

\* the dict classify_batch returns when it does not classify
AllMedium(batch, reasoning) ==
    [k \in {Key(batch[i].change_id) : i \in 1..Len(batch)} |->
        Verdict("medium", reasoning, Lit("Can xem xet thu cong"))]

\* what chat.completions.create does: it raises, or it returns after
\* elapsed_ms with message.content being content (None or a text)
CreateRaises(message) == [kind |-> "raise", message |-> message]

CreateReturns(elapsed_ms, content) ==
    [kind |-> "reply", elapsed_ms |-> elapsed_ms, content |-> content]

\* message.content when the reply carries no text
NoContent == [t |-> "None"]

\* LLMClassifier.classify_batch: (results, llm_time_ms)
classify_batch(batch, client, outcome) ==
    IF batch = <<>> THEN <<EmptyDict, 0>>
    ELSE IF ~client
    THEN <<AllMedium(batch,
                     Lit("LLM khong kha dung - mac dinh muc trung binh")), 0>>
    ELSE IF outcome.kind = "raise"
    THEN <<AllMedium(batch, <<"Loi LLM: ", outcome.message>>), 0>>
    ELSE IF outcome.content.t = "None"
    THEN <<AllMedium(batch, <<"Loi LLM: ",
                              "'NoneType' object is not subscriptable">>), 0>>
    ELSE TheOne({
        IF r.raised THEN <<AllMedium(batch, <<"Loi LLM: ", r.message>>), 0>>
        ELSE <<r.value, outcome.elapsed_ms>>
        : r \in {parse_response(outcome.content)}})

-----------------------------------------------------------------------------
(* classifier.py: classify_changes.                                        *)

ClassifiedChange(change, verdict, classification_source) ==
    [change_id |-> change.change_id, change_type |-> change.change_type,
     block_type |-> change.block_type, location |-> change.location,
     original |-> change.original, modified |-> change.modified,
     similarity |-> change.similarity, diff_text |-> change.diff_text,
     word_changes |-> change.word_changes,
     impact |-> verdict.impact, reasoning |-> verdict.reasoning,
     risk_analysis |-> verdict.risk_analysis,
     classification_source |-> classification_source]

RECURSIVE RuleLayerByDocumentType(_)
\* a faulty layer 1: in a document that is not of the general type, the
\* changes the rules do not classify are taken as low
RuleLayerByDocumentType(todo) ==
    IF todo = <<>> THEN [classified |-> <<>>, needs_llm |-> <<>>]
    ELSE TheOne({
        IF verdict.impact # NoImpact
        THEN [classified |->
                <<ClassifiedChange(Head(todo), verdict, "rule-based")>>
                \o rest.classified,
              needs_llm |-> rest.needs_llm]
        ELSE IF document_type # "general"
        THEN [classified |->
                <<ClassifiedChange(Head(todo),
                      Verdict("low", Lit("Thay doi khong dang ke"), <<>>),
                      "rule-based")>>
                \o rest.classified,
              needs_llm |-> rest.needs_llm]
        ELSE [classified |-> rest.classified,
              needs_llm |-> <<Head(todo)>> \o rest.needs_llm]
        : verdict \in {classify_by_rules(Head(todo))},
          rest \in {RuleLayerByDocumentType(Tail(todo))}})

RECURSIVE RuleLayer(_)
\* layer 1 of classify_changes: the loop over the changes
RuleLayer(todo) ==
    IF todo = <<>> THEN [classified |-> <<>>, needs_llm |-> <<>>]
    ELSE TheOne({
        IF verdict.impact # NoImpact
        THEN [classified |->
                <<ClassifiedChange(Head(todo), verdict, "rule-based")>>
                \o rest.classified,
              needs_llm |-> rest.needs_llm]
        ELSE [classified |-> rest.classified,
              needs_llm |-> <<Head(todo)>> \o rest.needs_llm]
        : verdict \in {classify_by_rules(Head(todo))},
          rest \in {RuleLayer(Tail(todo))}})

\* the verdict for a change absent from llm_results
CouldNotClassify ==
    Verdict("medium", Lit("Khong the phan loai"), Lit("Can xem xet thu cong"))

\* a faulty layer 2: a change absent from llm_results is skipped
LlmLayerSkipMissing(batch, llm_results) ==
    [i \in 1..Len(SelectSeq(batch, LAMBDA c :
                      Key(c.change_id) \in DOMAIN llm_results)) |->
        ClassifiedChange(
            SelectSeq(batch, LAMBDA c :
                Key(c.change_id) \in DOMAIN llm_results)[i],
            llm_results[Key(SelectSeq(batch, LAMBDA c :
                Key(c.change_id) \in DOMAIN llm_results)[i].change_id)],
            "llm")]

\* a faulty layer 2: one change absent from llm_results and no change of
\* the batch keeps its result
LlmLayerAllOrNothing(batch, llm_results) ==
    [i \in 1..Len(batch) |->
        ClassifiedChange(batch[i],
            IF \A k \in 1..Len(batch) :
                  Key(batch[k].change_id) \in DOMAIN llm_results
            THEN llm_results[Key(batch[i].change_id)]
            ELSE CouldNotClassify,
            "llm")]

\* layer 2 of classify_changes: the loop over needs_llm
LlmLayer(batch, llm_results) ==
    [i \in 1..Len(batch) |->
        ClassifiedChange(batch[i],
            IF Key(batch[i].change_id) \in DOMAIN llm_results
            THEN llm_results[Key(batch[i].change_id)]
            ELSE CouldNotClassify,
            "llm")]

RECURSIVE InsertById(_, _)
\* sorted with c put behind the elements whose change_id is not greater
InsertById(c, sorted) ==
    IF sorted = <<>> THEN <<c>>
    ELSE IF Head(sorted).change_id <= c.change_id
    THEN <<Head(sorted)>> \o InsertById(c, Tail(sorted))
    ELSE <<c>> \o sorted

\* a faulty classify_changes: the closing sort left out
SortByIdOmitted(list) == list

RECURSIVE SortById(_)
\* classified.sort(key=lambda c: c.change_id), a stable sort
SortById(list) ==
    IF list = <<>> THEN <<>>
    ELSE InsertById(list[Len(list)],
                    SortById(SubSeq(list, 1, Len(list) - 1)))

ClassifyRules ==
    /\ pc = "diffed"
    /\ \E layer \in {RuleLayer(changes)} :
          /\ classified' = layer.classified
          /\ needs_llm' = layer.needs_llm
    /\ llm_time_ms' = 0
    /\ llm_calls' = 0
    /\ pc' = "rules_done"
    /\ UNCHANGED <<blocks_v1, blocks_v2, api_key, document_type, opcodes,
                   changes, change_id, batch_calls, llm_requests, llm_outcome,
                   annotated, word_diff>>

\* no change needs the LLM: sort and return
ClassifyReturn ==
    /\ pc = "rules_done"
    /\ needs_llm = <<>>
    /\ classified' = SortById(classified)
    /\ pc' = "done"
    /\ UNCHANGED <<blocks_v1, blocks_v2, api_key, document_type, opcodes,
                   changes, change_id, needs_llm, llm_time_ms, llm_calls,
                   batch_calls, llm_requests, llm_outcome,
                   annotated, word_diff>>

\* a faulty classify_changes: classify_batch called once per change
ClassifyPerEdit(outcome) ==
    /\ pc = "rules_done"
    /\ needs_llm # <<>>
    /\ batch_calls' = batch_calls
                         \o [i \in 1..Len(needs_llm) |-> <<needs_llm[i]>>]
    /\ \E r \in {classify_batch(needs_llm, api_key, outcome)} :
          /\ classified' = SortById(classified \o LlmLayer(needs_llm, r[1]))
          /\ llm_time_ms' = r[2]
    /\ llm_calls' = 1
    /\ pc' = "done"
    /\ UNCHANGED <<blocks_v1, blocks_v2, api_key, document_type, opcodes,
                   changes, change_id, needs_llm,
                   annotated, word_diff>>

\* a faulty classify_changes: a result of the service for the id of a
\* change the rules classified replaces what the rules gave
ClassifyBatchOverRules(outcome) ==
    /\ pc = "rules_done"
    /\ needs_llm # <<>>
    /\ batch_calls' = Append(batch_calls, needs_llm)
    /\ \E r \in {classify_batch(needs_llm, api_key, outcome)} :
          /\ classified' = SortById(
                [i \in DOMAIN classified |->
                    IF Key(classified[i].change_id) \in DOMAIN r[1]
                    THEN ClassifiedChange(classified[i],
                             r[1][Key(classified[i].change_id)], "llm")
                    ELSE classified[i]]
                \o LlmLayer(needs_llm, r[1]))
          /\ llm_time_ms' = r[2]
    /\ llm_calls' = 1
    /\ pc' = "done"
    /\ UNCHANGED <<blocks_v1, blocks_v2, api_key, document_type, opcodes,
                   changes, change_id, needs_llm,
                   annotated, word_diff>>

\* the rest of classify_changes once classify_batch is called on needs_llm
\* and the service, if it is asked, does outcome
ClassifyBatch(outcome) ==
    /\ pc = "rules_done"
    /\ needs_llm # <<>>
    /\ batch_calls' = Append(batch_calls, needs_llm)
    /\ \E r \in {classify_batch(needs_llm, api_key, outcome)} :
          /\ classified' = SortById(classified \o LlmLayer(needs_llm, r[1]))
          /\ llm_time_ms' = r[2]
    /\ llm_calls' = 1
    /\ pc' = "done"
    /\ UNCHANGED <<blocks_v1, blocks_v2, api_key, document_type, opcodes,
                   changes, change_id, needs_llm,
                   annotated, word_diff>>

-----------------------------------------------------------------------------
(* The service.                                                            *)

Critical == <<"c", "r", "i", "t", "i", "c", "a", "l">>

Low == <<"l", "o", "w">>

\* the items of the arrays the service replies with: ids 1 and 2 as
\* numbers, 2 as a string and 1.5; impacts in lower or upper case and one
\* outside the four
ReplyItems ==
    {JObj(JInt(1), JStr(Critical)),
     JObj(JInt(2), JStr(Low)),
     JObj(JStr(<<"2">>), JStr(<<"H", "I", "G", "H">>)),
     JObj(JFloat(1), JStr(<<"u", "r", "g", "e", "n", "t">>))}

\* replies of other shapes: no JSON, null, an empty and a non-empty
\* object, arrays with an item without id or impact, with null for an
\* impact, with a string that is no number for an id and with a number
\* for an item
OddBodies ==
    {NotJson, JNull, JObj(JAbsent, JAbsent), JObj(JInt(1), JStr(Critical)),
     JArr(<<JObj(JAbsent, JStr(Low))>>),
     JArr(<<JObj(JInt(1), JAbsent)>>),
     JArr(<<JObj(JInt(1), JNull)>>),
     JArr(<<JObj(JStr(<<"x">>), JStr(Low))>>),
     JArr(<<JObj(JInt(2), JStr(Low)), JInt(7)>>)}

\* the texts the service replies with
ReplyTexts ==
    {ResponseText("", JArr(items), "") :
        items \in SeqsUpTo(ReplyItems, MaxReply)}
    \cup {ResponseText("", body, "") : body \in OddBodies}
    \cup {ResponseText("FENCEjson", JArr(<<JObj(JInt(1), JStr(Low))>>),
                       "FENCE"),
          ResponseText("FENCE", JArr(<<JObj(JInt(2), JStr(Critical))>>),
                       "FENCE"),
          ResponseText("FENCEpython", JArr(<<JObj(JInt(1), JStr(Low))>>),
                       "FENCE")}

\* the values int((time.time() - llm_start) * 1000) takes
ElapsedMs == {0, 850}

LLMUnavailable ==
    /\ ~api_key
    /\ ClassifyBatch(NoOutcome)
    /\ UNCHANGED <<llm_requests, llm_outcome>>

LLMFails ==
    /\ api_key
    /\ \E outcome \in {CreateRaises("Connection error.")} :
          /\ ClassifyBatch(outcome)
          /\ llm_outcome' = outcome
    /\ llm_requests' = Append(llm_requests,
                               build_prompt(needs_llm, document_type))

LLMReplies ==
    /\ api_key
    /\ \E elapsed_ms \in ElapsedMs :
       \E content \in {NoContent} \cup ReplyTexts :
          /\ ClassifyBatch(CreateReturns(elapsed_ms, content))
          /\ llm_outcome' = CreateReturns(elapsed_ms, content)
    /\ llm_requests' = Append(llm_requests,
                               build_prompt(needs_llm, document_type))

-----------------------------------------------------------------------------
(* compare_documents: diff_documents, then classify_changes.               *)

\* values of the document_type form field: its default, and one that
\* _build_prompt has no translation for
DocumentTypes == {"general", "memo"}

\* a request that leaves document_type at its default
Init ==
    /\ api_key \in BOOLEAN
    /\ document_type = "general"
    /\ \E v1 \in SeqsUpTo(RequestUnits, MaxUnits) :
       \E v2 \in SeqsUpTo(RequestUnits, MaxUnits - Len(v1)) : Parsed(v1, v2)

\* a request that gives a document_type
InitTyped ==
    /\ api_key \in BOOLEAN
    /\ document_type \in DocumentTypes
    /\ \E v1 \in SeqsUpTo(RequestUnits, MaxUnits) :
       \E v2 \in SeqsUpTo(RequestUnits, MaxUnits - Len(v1)) : Parsed(v1, v2)

Next ==
    \/ DiffStart
    \/ DiffEqual
    \/ DiffDelete
    \/ DiffInsert
    \/ DiffReplace
    \/ DiffReturn
    \/ ClassifyRules
    \/ ClassifyReturn
    \/ LLMUnavailable
    \/ LLMFails
    \/ LLMReplies

Spec == Init /\ [][Next]_vars

\* compare_documents for the document types
SpecTyped == InitTyped /\ [][Next]_vars

\* the paragraphs of the documents the rules are exercised on: amounts
\* that several patterns match, texts that differ in punctuation, case or
\* blanks only, with and without a number, and a word with an underscore
RuleUnits ==
    {Paragraph(<<"$", "1", "0", "0">>),
     Paragraph(<<"$", "5", "%">>),
     Paragraph(<<"$", "1", ",", "0", "0", "0">>),
     Paragraph(<<"1", ".", "0", "0", "0", " ", "v", "n", "d">>),
     Paragraph(<<"1", ".", "5">>),
     Paragraph(<<"1", "5">>),
     Paragraph(<<"H", "e", "l", "l", "o", ",", " ", "5", "%">>),
     Paragraph(<<"H", "e", "l", "l", "o", " ", "5", "%">>),
     Paragraph(<<"a", " ", " ", "5", "%">>),
     Paragraph(<<"a", " ", "5", "%">>),
     Paragraph(<<"a", "_", "b">>),
     Paragraph(<<"a", "b">>)}

InitRules ==
    /\ api_key = FALSE
    /\ document_type = "general"
    /\ \E v1 \in SeqsUpTo(RuleUnits, MaxUnits) :
       \E v2 \in SeqsUpTo(RuleUnits, MaxUnits - Len(v1)) : Parsed(v1, v2)

NextRules ==
    \/ DiffStart
    \/ DiffEqual
    \/ DiffDelete
    \/ DiffInsert
    \/ DiffReplace
    \/ DiffReturn
    \/ ClassifyRules
    \/ ClassifyReturn
    \/ LLMUnavailable

\* compare_documents without a credential, on documents made for the rules
SpecRules == InitRules /\ [][NextRules]_vars

-----------------------------------------------------------------------------
(* get_word_level_diff called on two texts.                                *)

\* the words of the texts
Words == {<<"a">>, <<"b">>, <<"c", ",">>}

\* the texts: at most MaxWords words, with one blank between them, or with
\* two blanks between them and one in front
WordTexts ==
    {Join(<<" ">>, ws) : ws \in SeqsUpTo(Words, MaxWords)}
    \cup {<<" ">> \o Join(<<" ", " ">>, ws) : ws \in SeqsUpTo(Words, MaxWords)}

InitWords ==
    /\ \E original \in WordTexts : \E modified \in WordTexts :
          word_diff = [original |-> original, modified |-> modified,
                       result |-> None]
    /\ pc = "word_diff"
    /\ blocks_v1 = <<>>
    /\ blocks_v2 = <<>>
    /\ api_key = FALSE
    /\ document_type = "general"
    /\ opcodes = <<>>
    /\ changes = <<>>
    /\ change_id = 1
    /\ classified = <<>>
    /\ needs_llm = <<>>
    /\ llm_time_ms = 0
    /\ llm_calls = 0
    /\ batch_calls = <<>>
    /\ llm_requests = <<>>
    /\ llm_outcome = NoOutcome
    /\ annotated = None

\* the call returns (diff_text, word_changes)
WordDiffReturn ==
    /\ pc = "word_diff"
    /\ word_diff' = [word_diff EXCEPT
                        !.result = get_word_level_diff(word_diff.original,
                                                       word_diff.modified)]
    /\ pc' = "word_diffed"
    /\ UNCHANGED <<blocks_v1, blocks_v2, api_key, document_type, opcodes,
                   changes, change_id, classified, needs_llm, llm_time_ms,
                   llm_calls, batch_calls, llm_requests, llm_outcome,
                   annotated>>

NextWords == WordDiffReturn

SpecWords == InitWords /\ [][NextWords]_vars

-----------------------------------------------------------------------------
(* diff_documents on documents of at most one paragraph of some words.     *)

\* the paragraphs: one to MaxWords words with one blank between them
WordUnits ==
    {Paragraph(Join(<<" ">>, ws)) :
        ws \in SeqsUpTo(Words, MaxWords) \ {<<>>}}

InitWordBlocks ==
    /\ api_key = FALSE
    /\ document_type = "general"
    /\ \E v1 \in SeqsUpTo(WordUnits, 1) :
       \E v2 \in SeqsUpTo(WordUnits, 1) : Parsed(v1, v2)

SpecWordBlocks == InitWordBlocks /\ [][NextAlign]_vars

-----------------------------------------------------------------------------
(* annotator.py: create_annotated_document on the modified document, as    *)
(* step 4 of compare_documents.  The annotated document is the list of its *)
(* blocks, each with the annotations put on it, in order: a paragraph has  *)
(* all its runs highlighted in the colour of the impact and a comment      *)
(* added to it, a table has cells highlighted and a comment added to its   *)
(* first cell.  Which cells of a table are highlighted is not modelled.    *)

\* _build_block_map: index -> element, counted as parse_document counts
build_block_map(doc_blocks) ==
    [index \in 0..(Len(doc_blocks) - 1) |-> doc_blocks[index + 1]]

\* _extract_block_index: the number after "Block ", less one, or None; an
\* int | None is a record here, as a key of llm_results is
extract_block_index(location) ==
    IF Len(location) = 2 /\ location[1] = "Block " THEN Key(location[2] - 1)
    ELSE [none |-> TRUE]

\* what _annotate_paragraph and _annotate_table put on an element
Annotation(change) == [change_id |-> change.change_id, impact |-> change.impact]

RECURSIVE AnnotateLoop(_, _, _)
\* the loop of create_annotated_document over classified_changes: the
\* annotations of the blocks of the document at its end
AnnotateLoop(block_map, todo, doc) ==
    IF todo = <<>> THEN doc
    ELSE TheOne({
        IF block_idx.none \/ block_idx.n \notin DOMAIN block_map
        THEN AnnotateLoop(block_map, Tail(todo), doc)
        ELSE AnnotateLoop(block_map, Tail(todo),
                 [doc EXCEPT ![block_idx.n + 1] =
                     Append(@, Annotation(Head(todo)))])
        : block_idx \in {extract_block_index(Head(todo).location)}})

create_annotated_document(modified_blocks, classified_changes) ==
    AnnotateLoop(build_block_map(modified_blocks), classified_changes,
                 [j \in 1..Len(modified_blocks) |-> <<>>])

\* step 4 of compare_documents when there are classified changes
Annotate ==
    /\ pc = "done"
    /\ classified # <<>>
    /\ annotated' = create_annotated_document(blocks_v2, classified)
    /\ pc' = "responded"
    /\ UNCHANGED <<blocks_v1, blocks_v2, api_key, document_type, opcodes,
                   changes, change_id, classified, needs_llm, llm_time_ms,
                   llm_calls, batch_calls, llm_requests, llm_outcome,
                   word_diff>>

\* step 4 of compare_documents when nothing changed: no annotated document
NoAnnotation ==
    /\ pc = "done"
    /\ classified = <<>>
    /\ pc' = "responded"
    /\ UNCHANGED <<blocks_v1, blocks_v2, api_key, document_type, opcodes,
                   changes, change_id, classified, needs_llm, llm_time_ms,
                   llm_calls, batch_calls, llm_requests, llm_outcome,
                   annotated, word_diff>>

\* a request without a credential on documents of at most MaxBlocks blocks
InitAnnotate ==
    /\ api_key = FALSE
    /\ document_type = "general"
    /\ \E v1 \in SeqsUpTo(AlignUnits, MaxBlocks) :
       \E v2 \in SeqsUpTo(AlignUnits, MaxBlocks) : Parsed(v1, v2)

NextAnnotate ==
    \/ DiffStart
    \/ DiffEqual
    \/ DiffDelete
    \/ DiffInsert
    \/ DiffReplace
    \/ DiffReturn
    \/ ClassifyRules
    \/ ClassifyReturn
    \/ LLMUnavailable
    \/ Annotate
    \/ NoAnnotation

\* compare_documents up to the annotated document
SpecAnnotate == InitAnnotate /\ [][NextAnnotate]_vars

-----------------------------------------------------------------------------
(* Properties of classify_changes, checked under Spec.                     *)

Range(s) == {s[i] : i \in DOMAIN s}

\* the Change a ClassifiedChange carries
EditOf(c) ==
    Change(c.change_id, c.change_type, c.block_type, c.location, c.original,
           c.modified, c.similarity, c.diff_text, c.word_changes)

\* the entries of the returned list for the edit e
ResultsFor(e) ==
    {classified[i] :
        i \in {j \in DOMAIN classified :
                  classified[j].change_id = e.change_id}}

\* every entry returned for e satisfies P, and there is one
Resulting(e, P(_)) == ResultsFor(e) # {} /\ \A c \in ResultsFor(e) : P(c)

Returns == pc = "done"

ServiceRaised == Returns /\ llm_outcome.kind = "raise"

ServiceReplied == Returns /\ llm_outcome.kind = "reply"

\* a reasoning made from the message of an exception
IsErrorDerived(reasoning) ==
    Len(reasoning) = 2 /\ reasoning[1] = "Loi LLM: "

IsCouldNotClassify(reasoning) == reasoning = Lit("Khong the phan loai")

IsServiceUnavailable(reasoning) ==
    reasoning = Lit("LLM khong kha dung - mac dinh muc trung binh")

\* the reasoning of one of the degraded paths
IsDegradation(reasoning) ==
    IsErrorDerived(reasoning) \/ IsCouldNotClassify(reasoning)

\* C1: when classify_changes returns, whatever the service did, the
\* returned list holds every edit of the input exactly once with the same
\* change_id and the same edit fields, and holds nothing else.
C1_EveryEditExactlyOnce ==
    Returns =>
        /\ Len(classified) = Len(changes)
        /\ \A i \in DOMAIN changes :
              Cardinality({j \in DOMAIN classified :
                              EditOf(classified[j]) = changes[i]}) = 1
        /\ \A j \in DOMAIN classified :
              \E i \in DOMAIN changes : EditOf(classified[j]) = changes[i]

\* two edits, one resolved by a rule and one handed to a service that raised
C1_Witness ==
    /\ ServiceRaised
    /\ Len(changes) = 2
    /\ \E i, j \in DOMAIN classified :
          /\ classified[i].classification_source = "rule-based"
          /\ classified[j].classification_source = "llm"

\* C2: the returned list is strictly ascending by change_id and its ids
\* are exactly 1..n for the n edits diff_documents emitted, however the
\* edits were split between the rules and the service.
C2_SortedIdsWithoutGaps ==
    Returns =>
        /\ Len(classified) = Len(changes)
        /\ \A i \in DOMAIN classified : classified[i].change_id = i
        /\ \A i, j \in DOMAIN classified :
              i < j => classified[i].change_id < classified[j].change_id

\* edit 1 went to the service and edit 2 to a rule: the merge put them in
\* the other order before the sort
C2_Witness ==
    /\ Returns
    /\ Len(classified) = 2
    /\ classified[1].classification_source = "llm"
    /\ classified[2].classification_source = "rule-based"

IsMediumFromService(c) ==
    c.impact = "medium" /\ c.classification_source = "llm"

\* C3: when chat.completions.create raises, classify_changes still
\* returns, every edit of the batch is in the result with impact medium
\* and source "llm", and llm_time_ms is 0.
C3_FailedCallDegrades ==
    ServiceRaised =>
        /\ llm_time_ms = 0
        /\ \A e \in Range(needs_llm) : Resulting(e, IsMediumFromService)

C3_Witness ==
    /\ ServiceRaised
    /\ Len(needs_llm) = 2
    /\ \A e \in Range(needs_llm) :
          \E c \in ResultsFor(e) : IsErrorDerived(c.reasoning)

\* the reply is a text json.loads rejects
IsUnparseable(content) ==
    /\ content.t = "str"
    /\ \/ content.body = NotJson
       \/ content.opening \notin {"", "FENCEjson", "FENCE"}

IsDegradedAsTransportFailure(c) ==
    c.impact = "medium" /\ IsErrorDerived(c.reasoning)

IsLeftUnclassified(c) ==
    /\ IsMediumFromService(c)
    /\ IsCouldNotClassify(c.reasoning)

IsServiceUnavailableMedium(c) ==
    c.impact = "medium" /\ IsServiceUnavailable(c.reasoning)

\* C5: without a credential every edit the rules left is MEDIUM with the
\* fixed "service unavailable" reasoning, and the result reports zero
\* service time and zero service calls.
C5_NoCredentialNoCalls ==
    (Returns /\ ~api_key) =>
        /\ \A e \in Range(needs_llm) :
              Resulting(e, IsServiceUnavailableMedium)
        /\ llm_time_ms = 0
        /\ llm_calls = 0

\* no credential, no request sent, and one call reported
C5_Witness ==
    /\ Returns
    /\ ~api_key
    /\ needs_llm # <<>>
    /\ llm_requests = <<>>
    /\ \A e \in Range(needs_llm) : Resulting(e, IsServiceUnavailableMedium)
    /\ llm_time_ms = 0
    /\ llm_calls = 1

IsUnresolved(change) == classify_by_rules(change).impact = NoImpact

\* the edits no rule resolves, in the order of the input
Unresolved == SelectSeq(changes, IsUnresolved)

ReplyImpacts ==
    {Critical, <<"m", "e", "d", "i", "u", "m">>, Low, <<"h", "i", "g", "h">>}

\* the level an impact string of the reply format stands for
GivenImpact(impact_str) ==
    CASE impact_str = Critical -> "critical"
      [] impact_str = <<"m", "e", "d", "i", "u", "m">> -> "medium"
      [] impact_str = Low -> "low"
      [] impact_str = <<"h", "i", "g", "h">> -> "critical"

\* an {id, impact} object of the reply format
IsStrictItem(item) ==
    /\ item.t = "object"
    /\ item.id.t = "int"
    /\ item.impact.t = "str"
    /\ item.impact.s \in ReplyImpacts

\* a reply of the reply format: a JSON array of {id, impact} objects,
\* with or without code-fence markers around it
IsStrictReply(content) ==
    /\ content.t = "str"
    /\ content.opening \in {"", "FENCEjson", "FENCE"}
    /\ content.closing \in {"", "FENCE"}
    /\ content.body.t = "array"
    /\ \A i \in DOMAIN content.body.items :
          IsStrictItem(content.body.items[i])

\* the positions of the items of a reply in the reply format that name e
ItemsNaming(e, items) ==
    {i \in DOMAIN items : items[i].id.n = e.change_id}

\* C7: when the reply is a well-formed array, the edits of the batch whose
\* id it omits, and only they, are MEDIUM with the "could not classify"
\* reasoning; an edit whose id is present has the impact the reply gave
\* it (the last, if the reply names it twice); the service time is the
\* measured one, not the 0 of a failed call.
C7_PartialReplyDegradesOmittedOnly ==
    (ServiceReplied /\ IsStrictReply(llm_outcome.content)) =>
        /\ llm_time_ms = llm_outcome.elapsed_ms
        /\ \A e \in Range(needs_llm) :
              /\ ResultsFor(e) # {}
              /\ \A c \in ResultsFor(e) :
                    LET items == llm_outcome.content.body.items
                        naming == ItemsNaming(e, items)
                    IN  /\ c.classification_source = "llm"
                        /\ IF naming = {} THEN IsLeftUnclassified(c)
                           ELSE /\ c.impact =
                                     GivenImpact(items[Max(naming)].impact.s)
                                /\ ~IsDegradation(c.reasoning)

\* a batch of two, of which the reply names one
C7_Witness ==
    /\ ServiceReplied
    /\ IsStrictReply(llm_outcome.content)
    /\ \E e1, e2 \in Range(needs_llm) :
          /\ ItemsNaming(e1, llm_outcome.content.body.items) = {}
          /\ \E c \in ResultsFor(e1) : IsLeftUnclassified(c)
          /\ ItemsNaming(e2, llm_outcome.content.body.items) # {}
          /\ \E c \in ResultsFor(e2) : c.impact = "critical"

IsDegraded(c) == c.impact = "medium" /\ IsDegradation(c.reasoning)

IdsRead(id) ==
    CASE id.t \in {"int", "float"} -> {id.n}
      [] id.t = "str" /\ ~IntOfStr(id.s).raised -> {IntOfStr(id.s).value}
      [] OTHER -> {}

\* the level an impact of a reply is read as: letter case is ignored, and
\* a missing impact or a string outside the four is medium
ImpactRead(impact) ==
    IF impact.t = "str" /\ Lower(impact.s) \in ReplyImpacts
    THEN GivenImpact(Lower(impact.s))
    ELSE "medium"

\* an item the parser reads: an object whose id, if any, is a number or a
\* string holding an integer, and whose impact, if any, is a string
IsTolerated(item) ==
    /\ item.t = "object"
    /\ \/ item.id.t \in {"absent", "null", "int", "float"}
       \/ item.id.t = "str" /\ ~IntOfStr(item.id.s).raised
    /\ item.impact.t \in {"absent", "str"}

\* a reply the parser reads item by item
IsToleratedReply(content) ==
    /\ content.t = "str"
    /\ ~IsUnparseable(content)
    /\ content.body.t = "array"
    /\ \A i \in DOMAIN content.body.items :
          IsTolerated(content.body.items[i])

RuleEntry(e) == ClassifiedChange(e, classify_by_rules(e), "rule-based")

\* the entries the rules give for a list of edits: nothing but the list is
\* read
RuleEntries(edits) ==
    SelectSeq([i \in 1..Len(edits) |-> RuleEntry(edits[i])],
              LAMBDA c : c.impact # NoImpact)

IsRuleBased(c) == c.classification_source = "rule-based"

\* C14: the edits the rules resolve, and their impact, reasoning,
\* risk_analysis and source, are given by the list of edits alone: they
\* are the same for every document_type.  The document_type is read for the
\* prompt of the service only.
C14_RulesIgnoreDocumentType ==
    /\ pc = "rules_done" =>
          \E entries \in {RuleEntries(changes)} :
              /\ classified = entries
              /\ Len(needs_llm) = Len(changes) - Len(entries)
              /\ \A c \in Range(needs_llm) :
                    /\ c \in Range(changes)
                    /\ \A r \in Range(entries) : c.change_id # r.change_id
    /\ \A i \in DOMAIN llm_requests :
          llm_requests[i] = build_prompt(needs_llm, document_type)

\* a memo with an edit the rules resolve and one they leave: the prompt is
\* not the one of a general document
C14_Witness ==
    /\ Returns
    /\ document_type = "memo"
    /\ \E c \in Range(classified) : IsRuleBased(c) /\ c.impact = "critical"
    /\ needs_llm # <<>>
    /\ llm_requests = <<build_prompt(needs_llm, "memo")>>
    /\ build_prompt(needs_llm, "memo") # build_prompt(needs_llm, "general")

\* what the rules alone make of the edit e: its entry if they resolve it
AsRulesGive(e, c) ==
    \E verdict \in {classify_by_rules(e)} :
        IF verdict.impact # NoImpact
        THEN /\ c.classification_source = "rule-based"
             /\ c.impact = verdict.impact
             /\ c.reasoning = verdict.reasoning
             /\ c.risk_analysis = verdict.risk_analysis
        ELSE c.classification_source = "llm"

\* the reply is in the reply format and has an item for the id of a
\* rule-resolved edit that gives it another impact
ReplyContradictsRules ==
    /\ ServiceReplied
    /\ IsStrictReply(llm_outcome.content)
    /\ \E c \in Range(classified) :
       \E i \in DOMAIN llm_outcome.content.body.items :
          /\ c.classification_source = "rule-based"
          /\ llm_outcome.content.body.items[i].id.n = c.change_id
          /\ GivenImpact(llm_outcome.content.body.items[i].impact.s) # c.impact

\* C17: in the list classify_changes returns, an edit has the source
\* "rule-based", with the impact, reasoning and risk_analysis of
\* classify_by_rules, exactly when classify_by_rules gave a result for it,
\* and the source "llm" otherwise; this is so whatever the service replies,
\* a reply naming the id of a rule-resolved edit included.
C17_RuleResultsAreFinal ==
    Returns =>
        \A e \in Range(changes) : Resulting(e, LAMBDA c : AsRulesGive(e, c))

\* the rules made an edit critical, the service replied with another impact
\* for its id, and the edit is returned as the rules made it
C17_Witness ==
    /\ ReplyContradictsRules
    /\ \E c \in Range(classified) :
          c.classification_source = "rule-based" /\ c.impact = "critical"
    /\ \E c \in Range(classified) : c.classification_source = "llm"
    /\ \A e \in Range(changes) : Resulting(e, LAMBDA c : AsRulesGive(e, c))

-----------------------------------------------------------------------------
(* Properties of diff_documents, checked under SpecAlign.                  *)

DiffReturned == pc = "diffed"

\* C9: diff_documents on two equal block lists, repeated texts included,
\* returns no change.
C9_SelfDiffIsEmpty ==
    blocks_v1 = blocks_v2 => changes = <<>>

\* a document of two blocks with the same text, compared with itself
C9_Witness ==
    /\ DiffReturned
    /\ blocks_v1 = blocks_v2
    /\ Len(blocks_v1) = 2
    /\ blocks_v1[1].content = blocks_v1[2].content

\* the texts of the two documents
Texts == Range(Contents(blocks_v1)) \cup Range(Contents(blocks_v2))

UnitsWith(blocks, text) == {i \in DOMAIN blocks : blocks[i].content = text}

\* the changes of the given kinds about a block of v1 with this text
EditsOfOriginal(text, kinds) ==
    {k \in DOMAIN changes :
        changes[k].change_type \in kinds /\ changes[k].original = text}

\* the changes of the given kinds about a block of v2 with this text
EditsOfModified(text, kinds) ==
    {k \in DOMAIN changes :
        changes[k].change_type \in kinds /\ changes[k].modified = text}

AnyKind == {"added", "deleted", "modified"}

\* as many changes of these kinds about the text as blocks with it, on
\* each side, and no change of another kind about it
OneEditPerUnit(text, kinds_v1, kinds_v2) ==
    /\ Cardinality(EditsOfOriginal(text, kinds_v1))
          = Cardinality(UnitsWith(blocks_v1, text))
    /\ Cardinality(EditsOfModified(text, kinds_v2))
          = Cardinality(UnitsWith(blocks_v2, text))
    /\ EditsOfOriginal(text, AnyKind \ kinds_v1) = {}
    /\ EditsOfModified(text, AnyKind \ kinds_v2) = {}

InOneDocumentOnly(text) ==
    UnitsWith(blocks_v1, text) = {} \/ UnitsWith(blocks_v2, text) = {}

\* C10 as the specification states it: every block whose text is in one
\* document only yields exactly one change, of kind deleted if it is in
\* v1 and added if it is in v2.
C10_OnlyAddedOrDeleted ==
    DiffReturned =>
        \A text \in Texts :
            InOneDocumentOnly(text) =>
                OneEditPerUnit(text, {"deleted"}, {"added"})

\* C10: every block whose text is in one document only yields exactly one
\* change: deleted, or modified when a replace run pairs it with a block
\* of v2, if it is in v1; added, or modified when a replace run pairs it
\* with a block of v1, if it is in v2.
C10_OneEditAlsoModified ==
    DiffReturned =>
        \A text \in Texts :
            InOneDocumentOnly(text) =>
                OneEditPerUnit(text, {"deleted", "modified"},
                               {"added", "modified"})

\* a block of v1 paired with a block of v2 and another block of v2 added,
\* none of the three texts in the other document
C10_Witness ==
    /\ DiffReturned
    /\ \E k, m \in DOMAIN changes :
          /\ changes[k].change_type = "modified"
          /\ InOneDocumentOnly(changes[k].original)
          /\ InOneDocumentOnly(changes[k].modified)
          /\ changes[m].change_type = "added"
          /\ InOneDocumentOnly(changes[m].modified)

\* the opcodes of the block matcher for the two documents
AllOpcodes == get_opcodes(Contents(blocks_v1), Contents(blocks_v2))

\* the opcodes with this tag, as <<tag, i1, i2, j1, j2>>
OpcodesTagged(tag) == {op \in Range(AllOpcodes) : op[1] = tag}

\* the 1-based positions in v1 and in v2 an opcode covers
V1Of(op) == (op[2] + 1)..op[3]

V2Of(op) == (op[4] + 1)..op[5]

\* the changes located at the v1 block in position i: deleted or modified
EditsAtV1(i) ==
    {k \in DOMAIN changes :
        /\ changes[k].change_type \in {"deleted", "modified"}
        /\ changes[k].location = Location(blocks_v1[i])}

\* the added changes located at the v2 block in position j
AddedAtV2(j) ==
    {k \in DOMAIN changes :
        /\ changes[k].change_type = "added"
        /\ changes[k].location = Location(blocks_v2[j])}

BelowThreshold(sim) == ~RatioGe(sim, <<1, 2>>)

C15_FieldsFollowKind ==
    \A c \in Range(changes) :
        /\ c.change_type \in {"added", "deleted", "modified"}
        /\ c.original = None <=> c.change_type = "added"
        /\ c.modified = None <=> c.change_type = "deleted"
        /\ c.similarity # None <=> c.change_type = "modified"

\* one replace run has given a modified, a deleted and an added change
C15_Witness ==
    /\ DiffReturned
    /\ OpcodesTagged("replace") # {}
    /\ \A kind \in {"added", "deleted", "modified"} :
          \E c \in Range(changes) : c.change_type = kind
    /\ \E c \in Range(changes) : c.similarity # None /\ c.original # None


\* the similarity of the v1 block in position i and the v2 block in
\* position j
Sim(i, j) == ratio(blocks_v1[i].content, blocks_v2[j].content)

\* of the v2 positions in free, the first of those most similar to the v1
\* block in position i
MostSimilar(i, free) ==
    CHOOSE j \in free :
        \A k \in free :
            /\ ~RatioGt(Sim(i, k), Sim(i, j))
            /\ RatioGe(Sim(i, k), Sim(i, j)) => j <= k

\* what an edit says of the blocks: its kind, the block it is located at
\* and the two texts
Outline(kind, block, original, modified) ==
    [change_type |-> kind, location |-> Location(block),
     original |-> original, modified |-> modified]

RECURSIVE AddedInOrder(_)
\* the v2 positions in free, in their order, as added edits
AddedInOrder(free) ==
    IF free = {} THEN <<>>
    ELSE LET first == Min(free)
         IN  <<Outline("added", blocks_v2[first], None,
                       blocks_v2[first].content)>>
             \o AddedInOrder(free \ {first})

RECURSIVE GreedyFrom(_, _, _)
\* the v1 positions from i to last taken one after the other, each with
\* the most similar of the v2 positions still free if its similarity is
\* 0.5 or more, then the v2 positions left
GreedyFrom(i, last, free) ==
    IF i > last THEN AddedInOrder(free)
    ELSE LET j == IF free = {} THEN 0 ELSE MostSimilar(i, free)
         IN  IF j # 0 /\ RatioGe(Sim(i, j), <<1, 2>>)
             THEN <<Outline("modified", blocks_v1[i], blocks_v1[i].content,
                            blocks_v2[j].content)>>
                  \o GreedyFrom(i + 1, last, free \ {j})
             ELSE <<Outline("deleted", blocks_v1[i], blocks_v1[i].content,
                            None)>>
                  \o GreedyFrom(i + 1, last, free)

\* the edits of one opcode
OutlineOf(op) ==
    CASE op[1] = "equal" -> <<>>
      [] op[1] = "delete" ->
           [n \in 1..(op[3] - op[2]) |->
               Outline("deleted", blocks_v1[op[2] + n],
                       blocks_v1[op[2] + n].content, None)]
      [] op[1] = "insert" ->
           [n \in 1..(op[5] - op[4]) |->
               Outline("added", blocks_v2[op[4] + n], None,
                       blocks_v2[op[4] + n].content)]
      [] op[1] = "replace" -> GreedyFrom(op[2] + 1, op[3], V2Of(op))

\* C18: the edits of a replace run are those of a greedy matching: the
\* v1 units in their order, each modified with the most similar v2 unit
\* not yet taken (the first of them on a tie) if that similarity reaches
\* 0.5 and deleted otherwise, whatever the later v1 units would match;
\* then one added edit per v2 unit left, in v2 order.
C18_GreedyInOrder ==
    DiffReturned =>
        [k \in DOMAIN changes |->
            Outline(changes[k].change_type,
                    [index |-> changes[k].location[2] - 1],
                    changes[k].original, changes[k].modified)]
        = Concat([n \in DOMAIN AllOpcodes |-> OutlineOf(AllOpcodes[n])])

\* "a 5%" takes "a b," at similarity 0.5 and "a b", which comes after and
\* is more similar to it, is deleted
C18_Witness ==
    /\ DiffReturned
    /\ Len(blocks_v1) = 2
    /\ Len(blocks_v2) = 1
    /\ Len(changes) = 2
    /\ changes[1].change_type = "modified"
    /\ changes[1].location = Location(blocks_v1[1])
    /\ changes[2].change_type = "deleted"
    /\ RatioGt(Sim(2, 1), Sim(1, 1))


\* the positions in changes of the edits of the v1 blocks of an opcode
V1SideOf(op) == UNION {EditsAtV1(i) : i \in V1Of(op)}

\* the positions in changes of the added edits of the v2 blocks of an opcode
AddedOf(op) == UNION {AddedAtV2(j) : j \in V2Of(op)}

\* every element of A is less than every element of B
AllBefore(A, B) == \A a \in A : \A b \in B : a < b

\* C19: the change_id of the k-th change is k, at every point of the run of
\* diff_documents, and the next id is one more than the number of changes;
\* in the list returned, the changes of an opcode come before those of the
\* opcodes after it, an equal opcode has none, and in a replace run the
\* deleted and modified changes come in v1 order, before the added ones,
\* which come in v2 order.
C19_IdsFollowEmission ==
    /\ \A k \in DOMAIN changes : changes[k].change_id = k
    /\ change_id = Len(changes) + 1
    /\ DiffReturned =>
          LET ops == AllOpcodes
          IN  /\ DOMAIN changes
                    = UNION {V1SideOf(ops[n]) \cup AddedOf(ops[n])
                                : n \in DOMAIN ops}
              /\ \A n \in DOMAIN ops :
                    /\ ops[n][1] = "equal" =>
                          V1SideOf(ops[n]) \cup AddedOf(ops[n]) = {}
                    /\ \A m \in DOMAIN ops :
                          n < m =>
                             AllBefore(V1SideOf(ops[n]) \cup AddedOf(ops[n]),
                                       V1SideOf(ops[m]) \cup AddedOf(ops[m]))
                    /\ AllBefore(V1SideOf(ops[n]), AddedOf(ops[n]))
                    /\ \A i, k \in V1Of(ops[n]) :
                          i < k => AllBefore(EditsAtV1(i), EditsAtV1(k))
                    /\ \A j, k \in V2Of(ops[n]) :
                          j < k => AllBefore(AddedAtV2(j), AddedAtV2(k))

\* an equal block, then a replace run that gives a deleted change with id 1
\* and an added change with id 2
C19_Witness ==
    /\ DiffReturned
    /\ Len(AllOpcodes) = 2
    /\ AllOpcodes[1][1] = "equal"
    /\ AllOpcodes[2][1] = "replace"
    /\ Len(changes) = 2
    /\ changes[1].change_type = "deleted" /\ changes[1].change_id = 1
    /\ changes[2].change_type = "added" /\ changes[2].change_id = 2


\* the positions in changes of the modified edits of an opcode
ModifiedOf(op) ==
    {k \in V1SideOf(op) : changes[k].change_type = "modified"}

\* the texts of the v2 blocks of an opcode
V2TextsOf(op) == {blocks_v2[j].content : j \in V2Of(op)}

\* the smaller of two numbers
Smaller(a, b) == IF a <= b THEN a ELSE b

\* C20: in the list diff_documents returns, every v1 block outside the
\* equal runs is the block of exactly one deleted or modified change and
\* of no change inside them; every v2 block outside the equal runs is
\* taken exactly once, by an added change located at it or as the modified
\* text of a modified change of its run, so that no v2 block is paired
\* with two v1 blocks; the modified changes of a replace run are at most
\* as many as the smaller of its two sides.
C20_EveryUnitOnce ==
    DiffReturned =>
        \A op \in Range(AllOpcodes) :
            IF op[1] = "equal"
            THEN V1SideOf(op) = {} /\ AddedOf(op) = {}
            ELSE /\ \A i \in V1Of(op) : Cardinality(EditsAtV1(i)) = 1
                 /\ \A j \in V2Of(op) : Cardinality(AddedAtV2(j)) <= 1
                 /\ \A text \in V2TextsOf(op) :
                       Cardinality({k \in ModifiedOf(op) :
                                       changes[k].modified = text})
                         + Cardinality({j \in V2Of(op) :
                                          /\ blocks_v2[j].content = text
                                          /\ AddedAtV2(j) # {}})
                         = Cardinality({j \in V2Of(op) :
                                          blocks_v2[j].content = text})
                 /\ \A k \in ModifiedOf(op) :
                       changes[k].modified \in V2TextsOf(op)
                 /\ Cardinality(ModifiedOf(op))
                       <= Smaller(Cardinality(V1Of(op)),
                                  Cardinality(V2Of(op)))

\* a replace run of two v1 blocks and one v2 block that both v1 blocks are
\* similar to: one is modified, the other deleted
C20_Witness ==
    /\ DiffReturned
    /\ \E op \in OpcodesTagged("replace") :
          /\ Cardinality(V1Of(op)) = 2
          /\ Cardinality(V2Of(op)) = 1
          /\ \A i \in V1Of(op) : \A j \in V2Of(op) :
                RatioGe(Sim(i, j), <<1, 2>>)
          /\ Cardinality(ModifiedOf(op)) = 1
          /\ AddedOf(op) = {}


\* the 1-based position a location names, 0 if it is no "Block k"
BlockNamed(location) ==
    IF Len(location) = 2 /\ location[1] = "Block " THEN location[2] ELSE 0

\* the document an edit's unit is in: v2 for an added edit, v1 otherwise
HomeDocument(c) == IF c.change_type = "added" THEN blocks_v2 ELSE blocks_v1

\* the text of an edit's unit in its home document
HomeText(c) == IF c.change_type = "added" THEN c.modified ELSE c.original

\* C21: the location of every change is "Block k" with k the 1-based
\* position of its unit in its home document, v1 for a deleted or modified
\* change and v2 for an added one: the unit at that position has the
\* change's text and block type, and two changes of the same home document
\* are at different positions.
C21_LocationIsHomeIndex ==
    /\ \A c \in Range(changes) :
          /\ BlockNamed(c.location) \in 1..Len(HomeDocument(c))
          /\ HomeDocument(c)[BlockNamed(c.location)].content = HomeText(c)
          /\ HomeDocument(c)[BlockNamed(c.location)].block_type = c.block_type
    /\ \A k, m \in DOMAIN changes :
          (/\ k # m
           /\ (changes[k].change_type = "added")
                 = (changes[m].change_type = "added"))
             => changes[k].location # changes[m].location

\* "x y", "a b" against "a b,": the modified change is at Block 2, the
\* place of "a b" in v1, while "a b," is the first block of v2
C21_Witness ==
    /\ DiffReturned
    /\ Len(blocks_v1) = 2
    /\ Len(blocks_v2) = 1
    /\ \E c \in Range(changes) :
          /\ c.change_type = "modified"
          /\ c.location = <<"Block ", 2>>
          /\ c.original = blocks_v1[2].content
          /\ c.modified = blocks_v2[1].content
    /\ \E c \in Range(changes) :
          c.change_type = "deleted" /\ c.location = <<"Block ", 1>>

-----------------------------------------------------------------------------
(* Properties of classify_by_rules, checked under SpecRules.               *)

\* the text of an edit the patterns are searched in
ChangedText(c) ==
    IF c.word_changes # <<>> THEN Join(<<" ">>, TextsToCheck(c.word_changes))
    ELSE IF c.diff_text = None THEN <<>> ELSE c.diff_text

\* the positions in CRITICAL_PATTERNS of the patterns found in the edit
MatchingPatterns(c) ==
    {n \in 1..NumPatterns : PatternFound(n, ChangedText(c))}

\* the reasonings in the order of CRITICAL_PATTERNS: percentage, USD,
\* VND by symbol, VND by word, grouped number, decimal number
ReasonsInOrder ==
    <<Lit("Gia tri phan tram thay doi"),
      Lit("Gia tri tien te thay doi (USD)"),
      Lit("Gia tri tien te thay doi (VND)"),
      Lit("Gia tri tien te thay doi (VND)"),
      Lit("Gia tri so thay doi"),
      Lit("Gia tri so thay doi")>>

\* the whole text of an added or deleted edit
WholeText(c) ==
    IF c.change_type = "added" THEN c.modified
    ELSE IF c.change_type = "deleted" THEN c.original ELSE None

\* C12: an edit that is not trivial and whose changed text matches one or
\* several patterns is returned critical by the rules, with the reasoning
\* of the first of the matching patterns in the order percentage, USD,
\* VND by symbol, VND by word, grouped number, decimal number; an edit
\* whose text is "$100" has the USD reasoning.
C12_FirstMatchingPatternWins ==
    Returns =>
        \A e \in Range(changes) :
            /\ (~is_trivial_change(e) /\ MatchingPatterns(e) # {}) =>
                  Resulting(e, LAMBDA c :
                      /\ c.impact = "critical"
                      /\ c.classification_source = "rule-based"
                      /\ c.reasoning = ReasonsInOrder[Min(MatchingPatterns(e))])
            /\ WholeText(e) = <<"$", "1", "0", "0">> =>
                  Resulting(e, LAMBDA c :
                      /\ c.impact = "critical"
                      /\ c.reasoning = Lit("Gia tri tien te thay doi (USD)"))

\* "$1,000" replaced by "1.000 vnd": the USD pattern, a VND pattern and the
\* two number patterns match the changed text, and the USD reasoning is
\* returned
C12_Witness ==
    /\ Returns
    /\ \E e \in Range(changes) :
          /\ e.change_type = "modified"
          /\ ~is_trivial_change(e)
          /\ {2, 3, 5, 6} \subseteq MatchingPatterns(e)
          /\ Resulting(e, LAMBDA c :
                 c.reasoning = Lit("Gia tri tien te thay doi (USD)"))

\* the word change of "Hello," into "Hello"
IsHelloComma(wc) ==
    /\ wc.old_text = <<"H", "e", "l", "l", "o", ",">>
    /\ wc.new_text = <<"H", "e", "l", "l", "o">>

\* the edit has a word change, and its word changes are all of "Hello,"
\* into "Hello"
ChangesHelloCommaOnly(e) ==
    /\ e.word_changes # <<>>
    /\ \A k \in DOMAIN e.word_changes : IsHelloComma(e.word_changes[k])

\* the rest of the edit's text holds a number some pattern matches
HasNumberElsewhere(e) ==
    /\ e.diff_text # None
    /\ \E n \in 1..NumPatterns : PatternFound(n, e.diff_text)

\* C13: an edit that changes "Hello," into "Hello" and nothing else is
\* returned low by the rules, whatever numbers the text around the change
\* holds.
C13_PunctuationOnlyIsLow ==
    Returns =>
        \A e \in Range(changes) :
            ChangesHelloCommaOnly(e) =>
                Resulting(e, LAMBDA c :
                    /\ c.impact = "low"
                    /\ c.classification_source = "rule-based"
                    /\ c.reasoning = Lit("Thay doi khong dang ke"))

\* "Hello, 5%" has become "Hello 5%": the percentage is in the edit and is
\* not changed
C13_Witness ==
    /\ Returns
    /\ \E e \in Range(changes) :
          /\ ChangesHelloCommaOnly(e)
          /\ HasNumberElsewhere(e)
          /\ e.original = <<"H", "e", "l", "l", "o", ",", " ", "5", "%">>
          /\ Resulting(e, LAMBDA c : c.impact = "low")

\* letters and digits: \w without the underscore
AlphaNumeric == WordChars \ {"_"}

\* the text without its characters that are not letters or digits, in
\* lower case
Folded(text) == Lower(Keep(text, AlphaNumeric))

\* every word change of the edit, if it has one, has the same old and new
\* text but for case and for characters that are not letters or digits
OnlyFormattingChanged(e) ==
    \A k \in DOMAIN e.word_changes :
        Folded(e.word_changes[k].old_text) = Folded(e.word_changes[k].new_text)

IsRuleLow(c) ==
    /\ c.impact = "low"
    /\ c.classification_source = "rule-based"
    /\ c.reasoning = Lit("Thay doi khong dang ke")

\* C16: an edit, with word changes or without any, whose word changes all
\* have the same old and new text once the characters that are not letters
\* or digits are taken out and the case is folded, is returned low by the
\* rules, also when a pattern matches its text.
C16_FormattingOnlyIsLow ==
    Returns =>
        \A e \in Range(changes) :
            OnlyFormattingChanged(e) => Resulting(e, IsRuleLow)

\* "a  5%" has become "a 5%": the words are the same, there is no word
\* change, and the edit is returned critical for its percentage
C16_Witness ==
    /\ Returns
    /\ \E e \in Range(changes) :
          /\ e.change_type = "modified"
          /\ e.word_changes = <<>>
          /\ OnlyFormattingChanged(e)
          /\ Resulting(e, LAMBDA c :
                 /\ c.impact = "critical"
                 /\ c.classification_source = "rule-based"
                 /\ c.reasoning = Lit("Gia tri phan tram thay doi"))


-----------------------------------------------------------------------------
(* Properties of get_word_level_diff, checked under SpecWords.             *)

WordDiffReturned == pc = "word_diffed"

\* the runs of the edit script that are not equal runs
ChangedRuns(ops) == SelectSeq(ops, LAMBDA op : op[1] # "equal")

RECURSIVE Interleaved(_, _, _, _)
\* the words of the equal runs of ops, read in orig_words, with the words
\* of the old_text (side "old") or new_text (side "new") of the word
\* changes, one word change for each run that is not equal, in order
Interleaved(ops, orig_words, word_changes, side) ==
    IF ops = <<>> THEN <<>>
    ELSE IF Head(ops)[1] = "equal"
    THEN Slice(orig_words, Head(ops)[2], Head(ops)[3])
         \o Interleaved(Tail(ops), orig_words, word_changes, side)
    ELSE IF word_changes = <<>> THEN <<Lit("a word change is missing")>>
    ELSE Split(IF side = "old" THEN Head(word_changes).old_text
               ELSE Head(word_changes).new_text)
         \o Interleaved(Tail(ops), orig_words, Tail(word_changes), side)

\* C22: get_word_level_diff returns one WordChange for each run of the
\* word-level edit script that is not an equal run, in the order of the
\* runs; the equal runs with the old_text of the word changes between them
\* are the words of the original, and the equal runs with the new_text of
\* the word changes between them are the words of the modified text.
C22_WordChangesRebuildBothTexts ==
    WordDiffReturned =>
        LET orig_words == Split(word_diff.original)
            mod_words == Split(word_diff.modified)
            ops == get_opcodes(orig_words, mod_words)
            word_changes == word_diff.result.word_changes
        IN  /\ Len(word_changes) = Len(ChangedRuns(ops))
            /\ Interleaved(ops, orig_words, word_changes, "old") = orig_words
            /\ Interleaved(ops, orig_words, word_changes, "new") = mod_words

\* an original of three words, not one blank apart, with an equal run and
\* two or more runs that are not equal, one of them replaced
C22_Witness ==
    /\ WordDiffReturned
    /\ Len(Split(word_diff.original)) = 3
    /\ Len(word_diff.result.word_changes) >= 2
    /\ \E k \in DOMAIN word_diff.result.word_changes :
          /\ word_diff.result.word_changes[k].change_type = "replaced"
          /\ word_diff.result.word_changes[k].old_text
                # word_diff.result.word_changes[k].new_text
    /\ \E op \in Range(get_opcodes(Split(word_diff.original),
                                   Split(word_diff.modified))) :
          op[1] = "equal"
    /\ word_diff.original # Join(<<" ">>, Split(word_diff.original))


-----------------------------------------------------------------------------
(* Properties of the word changes of diff_documents, checked under         *)
(* SpecWordBlocks.                                                         *)

\* the kinds of the word changes of a change
WordChangeKinds(c) ==
    {c.word_changes[k].change_type : k \in DOMAIN c.word_changes}

\* C23: every WordChange of a change diff_documents appends for blocks of
\* non-empty text, the one made for a whole block that is added or deleted
\* and those get_word_level_diff gives for a pair of blocks, has an empty
\* old_text exactly when its kind is added and an empty new_text exactly
\* when its kind is deleted.
C23_EmptySideFollowsKind ==
    \A c \in Range(changes) :
        \A k \in DOMAIN c.word_changes :
            /\ c.word_changes[k].change_type
                  \in {"added", "deleted", "replaced"}
            /\ c.word_changes[k].old_text = <<>>
                  <=> c.word_changes[k].change_type = "added"
            /\ c.word_changes[k].new_text = <<>>
                  <=> c.word_changes[k].change_type = "deleted"

\* a pair of paragraphs whose word changes are one of words put in and one
\* of words taken out
C23_Witness ==
    /\ DiffReturned
    /\ \E c \in Range(changes) :
          /\ c.change_type = "modified"
          /\ {"added", "deleted"} \subseteq WordChangeKinds(c)


-----------------------------------------------------------------------------
(* Properties of create_annotated_document, checked under SpecAnnotate.    *)

Responded == pc = "responded"

\* the positions of the blocks of the modified document that carry an
\* annotation of the change c
HighlightedFor(c) ==
    {j \in DOMAIN annotated :
        \E n \in DOMAIN annotated[j] : annotated[j][n].change_id = c.change_id}

\* the positions of the blocks of the modified document with this text
V2UnitsWith(text) == {j \in DOMAIN blocks_v2 : blocks_v2[j].content = text}

\* C24: in the annotated document, a modified or added change highlights
\* a block of the modified document, and only a block whose text is the
\* change's modified text; a deleted change highlights no block of the
\* modified document with another text than its own; also when the blocks
\* before it are not at the same positions in the two documents.
C24_HighlightsTheChangedUnit ==
    (Responded /\ annotated # None) =>
        \A c \in Range(classified) :
            IF c.change_type \in {"modified", "added"}
            THEN /\ HighlightedFor(c) # {}
                 /\ HighlightedFor(c) \subseteq V2UnitsWith(c.modified)
            ELSE HighlightedFor(c) \subseteq V2UnitsWith(c.original)

\* "x y", "a b" against "a b,": the deleted "x y" is at Block 1 and
\* highlights "a b,", the first block of the modified document; the
\* change of "a b" into "a b," is at Block 2, where the modified document
\* has no block, and highlights nothing
C24_Witness ==
    /\ Responded
    /\ Len(blocks_v1) = 2
    /\ Len(blocks_v2) = 1
    /\ \E c \in Range(classified) :
          /\ c.change_type = "deleted"
          /\ c.location = <<"Block ", 1>>
          /\ HighlightedFor(c) = {1}
          /\ blocks_v2[1].content # c.original
    /\ \E c \in Range(classified) :
          /\ c.change_type = "modified"
          /\ c.location = <<"Block ", 2>>
          /\ c.modified = blocks_v2[1].content
          /\ HighlightedFor(c) = {}

=============================================================================
